---- MODULE Spec2Model ----
(***************************************************************************)
(* Cross-context call delegation of the VOICEVOX web engine.               *)
(*   W : the ServiceWorker         (web/src/sw.ts, InferenceWorker)        *)
(*   H : the main thread / window  (web/src/sw-proxy.ts, MainThreadEngine) *)
(* Every action is one event-loop turn of one context: the code between    *)
(* two awaits whose promises are settled by an external event (a message,  *)
(* a timer, the end of a fetch / runtime / ONNX call), together with the   *)
(* promise continuations (microtasks) that this turn makes runnable.       *)
(***************************************************************************)
EXTENDS Integers, Sequences, FiniteSets, TLC

\* ---------------------------------------------------------------- bounds
MaxWCalls == 2
MaxHCalls == 1
MaxTicks == 1
MaxTasks == 2
MaxCoreCalls == 3
MaxEngineOps == 2
MaxNested == 2
MaxRequests == 2
MaxInvocations == 2
MaxWorkerQueue == 1
MaxFileOps == 2
MaxDialogs == 1
MaxInstanceCalls == 4

\* ------------------------------------------------------ program constants
\* setTimeout(..., 60000) in sendToMainThread and sendInferenceToServiceWorker
TimeoutMs == 60000
\* the clock of the model advances in steps of one timeout
TickMs == TimeoutMs

NoId == 0

\* the window that runs sw-proxy.ts (H), and another window of the same scope
MainWindow == 1
OtherWindow == 2

OpTypes == {"audioQuery", "accentPhrases", "moraData", "synthesis"}
MessageTypes == {"initialize"} \cup OpTypes
InferenceTypes == {"yukarinS", "yukarinSa", "decode"}
\* the data object of an inference message (its contents are drawn when the
\* forward call starts)
InferenceData == 1
\* the routes and the forward callback exercised after the handshake: GET
\* /version and POST /audio_query (the four delegated operations take the same
\* path through sendToMainThread and handleMessage), and the duration
\* inference the runtime asks for
Routes == {"initialize", "audioQuery"}
Forwards == {"yukarinS"}

modelTypes == <<"yukarinS", "yukarinSa", "spectrogram", "vocoder">>
ModelTypeSet == {modelTypes[i] : i \in DOMAIN modelTypes}
Speakers == {0, 1}

ErrNoClient == "No client available to handle request"
ErrRequestTimeout == "Request timeout"
ErrInferenceTimeout == "Inference request timeout"
ErrEngineNotInitialized == "Engine not initialized"
ErrCoreNotInitialized == "Core not initialized"
ErrAlreadyInProgress == "Initialization already in progress"
ErrUnknown == "Unknown error"
ErrInferenceFailed == "Inference failed"
\* a message type no case of handleMessage names, and the text of its warning
UnknownMessageType == "unknownOp"
WarnUnknownMessageType == "Unknown message type: unknownOp"
\* an inference type no case of handleInferenceRequest names, and the message
\* of the error its default case throws
UnknownInferenceType == "unknownType"
ErrUnknownInferenceType == "Unknown inference type: unknownType"
\* messages of the errors thrown by the external collaborators
ErrFetch == "fetch failed"
ErrBootstrap == "runtime bootstrap failed"
ErrMount == "dictionary mount failed"
ErrExports == "synthesis exports failed"
ErrRuntime == "runtime operation failed"
ErrLoad == "session load failed"
ErrRun == "session run failed"

VARIABLES
  now,                       \* wall clock, ms
  nextId,                    \* the ids crypto.randomUUID() has handed out
  clients,                   \* W: the window clients, in the order of clients.matchAll
  listener,                  \* H: registerServiceWorkerWithProxy and the message listener
  requests,                  \* W: the HTTP requests to delegating routes
  invocations,               \* sandbox: one record per call of the invoker
  fromWorker,                \* sandbox: messages of the worker not yet dispatched
  directoryHandleMap,        \* fileImpl: key -> directory handle (its name)
  storedHandles,             \* fileImpl: names with a handle in the persistent store
  fileOps,                   \* fileImpl: one record per file operation
  dialogs,                   \* fileImpl: one record per dialog call
  instanceMapper,            \* connector factory: host -> connector instance
  instanceCalls,             \* connector factory: one record per instance() call
  discarded,                 \* replies received for an id with no pending entry
  wCall,                     \* W: one record per sendToMainThread invocation
  pendingRequests,           \* W: id -> continuation (the call it belongs to)
  timers,                    \* armed setTimeout callbacks of both contexts
  toH,                       \* postMessage queue W -> H
  toW,                       \* postMessage queue H -> W
  engine,                    \* H: the MainThreadEngine (or Engine) instance
  isInitialized,             \* H: sw-proxy.ts module flag
  initPromise,               \* H: sw-proxy.ts initPromise
  initPc,                    \* H: position of initializeEngine's async body
  initError,                 \* H: the error initPromise was rejected with
  corePc,                    \* position of the running initializeCore body
  coreCalls,                 \* one record per initializeCore invocation
  bootstrapCount,            \* number of calls of the runtime's initialize()
  engineCount,               \* number of MainThreadEngine constructions
  hHandlers,                 \* H: handleMessage invocations in flight
  hCall,                     \* H: one record per sendInferenceToServiceWorker
  pendingInferenceRequests,  \* H: id -> continuation
  runtimeLog,                \* H: invocations of the synthesis runtime
  tasks,                     \* W: inference handlers and InferenceWorker calls in flight
  taskLog,                   \* W: settled InferenceWorker calls
  sessions,                  \* W: InferenceWorker.sessions
  initializingModels,        \* W: InferenceWorker.initializingModels
  loads,                     \* W: InferenceSession.create calls in flight
  nextLoad,                  \* W: number of InferenceSession.create calls + 1
  obtained                   \* W: sessions handed out by getSession

sandboxVars == <<invocations, fromWorker>>
fileVars == <<directoryHandleMap, storedHandles, fileOps, dialogs>>
factoryVars == <<instanceMapper, instanceCalls>>
browserVars == <<sandboxVars, fileVars, factoryVars>>
chanVars == <<now, nextId, clients, listener, requests, browserVars, discarded, wCall, pendingRequests,
             timers, toH, toW>>
initVars == <<isInitialized, initPromise, initPc, initError, engineCount>>
coreVars == <<engine, corePc, coreCalls, bootstrapCount>>
hostVars == <<hHandlers, hCall, pendingInferenceRequests, runtimeLog>>
cacheVars == <<tasks, taskLog, sessions, initializingModels, loads, nextLoad, obtained>>
vars == <<chanVars, initVars, coreVars, hostVars, cacheVars>>

\* ---------------------------------------------------------------- helpers
Remove(f, k) == [x \in DOMAIN f \ {k} |-> f[x]]
Put(f, k, v) == [x \in DOMAIN f \cup {k} |-> IF x = k THEN v ELSE f[x]]

RECURSIVE SortedSeq(_)
SortedSeq(S) ==
  IF S = {} THEN <<>>
  ELSE LET m == CHOOSE x \in S : \A y \in S : x <= y
       IN <<m>> \o SortedSeq(S \ {m})

\* the wire unit of postMessage
Msg(id, type, sub, success, error, data) ==
  [id |-> id, type |-> type, inferenceType |-> sub, success |-> success,
   error |-> error, data |-> data]

\* a lookup that would still find the continuation an id had before its
\* entry was deleted
LookupStale(table, id) == IF id \in DOMAIN table THEN table[id] ELSE id

\* a lookup that would hand out the oldest continuation stored
LookupFirst(table, id) ==
  IF id \in DOMAIN table
  THEN table[CHOOSE x \in DOMAIN table : \A y \in DOMAIN table : x <= y]
  ELSE NoId

\* Map.get: the continuation stored for id, or none
Lookup(table, id) == IF id \in DOMAIN table THEN table[id] ELSE NoId

\* a timeout callback that would not test for its entry
AlwaysPending(table, id) == TRUE

\* Map.has
IsPending(table, id) == id \in DOMAIN table

\* a timeout callback that would leave its entry in the table
KeepsEntry(table, id) == table

\* the table once a timeout callback that found its entry has run
AfterTimeout(table, id) == Remove(table, id)

\* 1 when this step deleted id's entry
Removed(before, after, id) ==
  IF id \in DOMAIN before /\ id \notin DOMAIN after THEN 1 ELSE 0

\* a promise continuation pair (resolve, reject) invoked once more
Settle(call, ok, err, data) ==
  IF call.result = "pending"
  THEN [call EXCEPT !.result = IF ok THEN "resolved" ELSE "rejected",
                    !.error = err, !.data = data,
                    !.settles = call.settles + 1]
  ELSE [call EXCEPT !.settles = call.settles + 1]

\* =========================================================================
\* InferenceWorker: the ONNX session cache of W
\* =========================================================================
\* model files that would be kept per speaker
PerSpeakerPaths(speakerId) ==
  [mt \in ModelTypeSet |->
     IF speakerId = 0 THEN "./models/0/model.onnx" ELSE "./models/1/model.onnx"]

\* modelPaths: the same four files for every speaker
modelPaths(speakerId) ==
  [mt \in ModelTypeSet |->
     CASE mt = "yukarinS" -> "./models/duration.onnx"
       [] mt = "yukarinSa" -> "./models/intonation.onnx"
       [] mt = "spectrogram" -> "./models/spectrogram.onnx"
       [] OTHER -> "./models/vocoder.onnx"]

\* sessionMap.has(modelPath) / a truthy sessionMap.get(modelPath)
HasSession(mt, speakerId) == modelPaths(speakerId)[mt] \in DOMAIN sessions[mt]

\* `${modelType}:${modelPath}`
initKey(mt, speakerId) == <<mt, modelPaths(speakerId)[mt]>>

\* a test that would be satisfied by one stored session
AnySession(speakerId) ==
  \E i \in DOMAIN modelTypes : HasSession(modelTypes[i], speakerId)

sessionInitialized(speakerId) ==
  \A i \in DOMAIN modelTypes : HasSession(modelTypes[i], speakerId)

\* the model types whose sessions a call of the worker asks for
Needed(kind) ==
  CASE kind = "yukarinS" -> {"yukarinS"}
    [] kind = "yukarinSa" -> {"yukarinSa"}
    [] kind = "decode" -> {"spectrogram", "vocoder"}
    [] OTHER -> ModelTypeSet

Idx(mt) == CHOOSE i \in DOMAIN modelTypes : modelTypes[i] = mt

\* getSession up to its first await: "hit" returns the cached session, "join"
\* awaits the warm-up load registered in initializingModels, "create" calls
\* InferenceSession.create (and registers nothing)
GetSessionJoins(mt, speakerId) ==
  initKey(mt, speakerId) \in DOMAIN initializingModels

getSession(mt, speakerId) ==
  IF HasSession(mt, speakerId) THEN "hit"
  ELSE IF GetSessionJoins(mt, speakerId) THEN "join"
  ELSE "create"

\* a warm-up that would load a model whatever the cache holds
AlwaysCreate(mt, speakerId) == "create"

\* a warm-up that would never find a load in flight
NeverJoins(mt, speakerId) == FALSE

\* one element of initializeSession's modelTypes.map up to its first await:
\* "create" also registers the load in initializingModels
InitializeSessionJoins(mt, speakerId) ==
  initKey(mt, speakerId) \in DOMAIN initializingModels

initializeSessionStep(mt, speakerId) ==
  IF HasSession(mt, speakerId) THEN "hit"
  ELSE IF InitializeSessionJoins(mt, speakerId) THEN "join"
  ELSE "create"

StepOf(kind, mt, speakerId) ==
  IF kind = "initializeSession" THEN initializeSessionStep(mt, speakerId)
  ELSE getSession(mt, speakerId)

\* clients[0]: the window sendToMainThread and handleInferenceRequest post to
FirstClient == IF clients = <<>> THEN NoId ELSE Head(clients)

\* client.postMessage(m): the queue to H takes the message when the client is
\* H's window (another window's copy of the message is not kept)
PostTo(client, q, m) == IF client = MainWindow THEN Append(q, m) ELSE q

\* the reply handleInferenceRequest posts to the window client
InferenceReply(tid, ok, err) == Msg(tid, "inferenceResponse", "", ok, err, tid)

\* the replies of the calls tids, posted in the order of the sequence
Replies(tids, ok, err) ==
  [i \in DOMAIN tids |-> InferenceReply(tids[i], ok, err)]

\* A call of yukarinSForward / yukarinSaForward / decodeForward (kind = the
\* inference type) or of initializeSession, up to its first await.
\* reply: the window client handleInferenceRequest looked up for its reply
\* (NoId for a call made by a route).
StartCall(tid, kind, speakerId, reply) ==
  LET need == Needed(kind)
      hits == {mt \in need : StepOf(kind, mt, speakerId) = "hit"}
      joins == {mt \in need : StepOf(kind, mt, speakerId) = "join"}
      starts == {mt \in need : StepOf(kind, mt, speakerId) = "create"}
      lidOf(mt) == nextLoad + Cardinality({m \in starts : Idx(m) < Idx(mt)})
      newLids == {lidOf(mt) : mt \in starts}
      mtOf(lid) == CHOOSE m \in starts : lidOf(m) = lid
      waits == newLids \cup {initializingModels[initKey(mt, speakerId)] : mt \in joins}
      by == IF kind = "initializeSession" THEN "init" ELSE "get"
      joined == {initializingModels[initKey(mt, speakerId)] : mt \in joins}
  IN /\ loads' = [lid \in DOMAIN loads \cup newLids |->
                    IF lid \in newLids
                    THEN [mt |-> mtOf(lid), path |-> modelPaths(speakerId)[mtOf(lid)],
                          by |-> by, awaiting |-> <<tid>>]
                    ELSE IF lid \in joined
                    THEN [loads[lid] EXCEPT !.awaiting = Append(@, tid)]
                    ELSE loads[lid]]
     /\ nextLoad' = nextLoad + Cardinality(starts)
     /\ initializingModels' =
          IF kind = "initializeSession"
          THEN [k \in DOMAIN initializingModels \cup {initKey(mt, speakerId) : mt \in starts} |->
                  IF k \in DOMAIN initializingModels THEN initializingModels[k]
                  ELSE lidOf(CHOOSE m \in starts : initKey(m, speakerId) = k)]
          ELSE initializingModels
     /\ obtained' =
          IF kind = "initializeSession" THEN obtained
          ELSE obtained \cup
               {<<tid, mt, modelPaths(speakerId)[mt],
                  sessions[mt][modelPaths(speakerId)[mt]], "hit">> : mt \in hits}
     /\ IF waits = {} /\ kind = "initializeSession"
        THEN /\ tasks' = tasks
             /\ taskLog' = Put(taskLog, tid, [kind |-> kind, ok |-> TRUE, error |-> ""])
        ELSE /\ tasks' = Put(tasks, tid,
                    [kind |-> kind, reply |-> reply, waits |-> waits,
                     pc |-> IF waits = {} THEN "run" ELSE "sessions"])
             /\ taskLog' = taskLog
     /\ sessions' = sessions

\* a warm-up without the finally block
NoFinally(table, ld) == table

\* the finally block of initializeSession (lines 84-88), which runs when the
\* load the call started settles: a load started by getSession has no key
WarmUpFinally(table, ld) ==
  IF ld.by = "init" THEN Remove(table, <<ld.mt, ld.path>>) ELSE table

\* a creator that would not store the session it made
NoSet(table, ld, session) == table

\* sessionMap.set(modelPath, session) of the call that made the session
SetSession(table, ld, session) == [table EXCEPT ![ld.mt] = Put(@, ld.path, session)]

\* sessionMap.get(modelPath): NoId stands for undefined
sessionMapGet(table, mt, path) ==
  IF path \in DOMAIN table[mt] THEN table[mt][path] ELSE NoId

\* InferenceSession.create settles: the creator stores the session (getSession
\* line 115, initializeSession line 78), the warm-up's finally block removes
\* its initializingModels key, and every call awaiting this load resumes.
\* A getSession that awaits the load goes on when the load succeeds and
\* returns the session even when the forward call that made it has ended by
\* then (the Promise.all of decodeForward rejected on its other getSession).
LoadDone(lid, ok) ==
  /\ lid \in DOMAIN loads
  /\ LET ld == loads[lid]
         kindOf(t) == IF t \in DOMAIN tasks THEN tasks[t].kind ELSE taskLog[t].kind
         getSessions == {ld.awaiting[i] : i \in {j \in DOMAIN ld.awaiting :
                            kindOf(ld.awaiting[j]) # "initializeSession"}}
         waiters == {t \in DOMAIN tasks : lid \in tasks[t].waits}
         ready == {t \in waiters : tasks[t].waits = {lid}}
         resolved == {t \in ready : tasks[t].kind = "initializeSession"}
         gone == IF ok THEN resolved ELSE waiters
         stored == IF ok THEN SetSession(sessions, ld, lid) ELSE sessions
     IN /\ loads' = Remove(loads, lid)
        /\ sessions' = stored
        /\ initializingModels' = WarmUpFinally(initializingModels, ld)
        /\ obtained' =
             IF ok
             THEN obtained \cup
                  {IF ld.by = "get"
                   THEN <<t, ld.mt, ld.path, lid, "create">>
                   ELSE <<t, ld.mt, ld.path, sessionMapGet(stored, ld.mt, ld.path), "join">> :
                     t \in getSessions}
             ELSE obtained
        /\ tasks' = [t \in DOMAIN tasks \ gone |->
                       IF t \in waiters
                       THEN [tasks[t] EXCEPT !.waits = @ \ {lid},
                               !.pc = IF t \in ready THEN "run" ELSE @]
                       ELSE tasks[t]]
        /\ taskLog' = [t \in DOMAIN taskLog \cup gone |->
                         IF t \in gone
                         THEN [kind |-> tasks[t].kind, ok |-> ok,
                               error |-> IF ok THEN "" ELSE ErrLoad]
                         ELSE taskLog[t]]
        /\ toH' = IF ok THEN toH
                  ELSE toH \o Replies(SelectSeq(ld.awaiting,
                                  LAMBDA t : t \in waiters /\ tasks[t].reply = MainWindow),
                                FALSE, ErrLoad)
  /\ nextLoad' = nextLoad
  /\ UNCHANGED <<now, nextId, clients, requests, browserVars, listener, discarded, wCall, pendingRequests, timers, toW>>
  /\ UNCHANGED <<initVars, coreVars, hostVars>>

\* the forward function of the inference package returns or throws
RunDone(tid, ok) ==
  /\ tid \in DOMAIN tasks
  /\ tasks[tid].pc = "run"
  /\ tasks' = Remove(tasks, tid)
  /\ taskLog' = Put(taskLog, tid,
        [kind |-> tasks[tid].kind, ok |-> ok, error |-> IF ok THEN "" ELSE ErrRun])
  /\ toH' = PostTo(tasks[tid].reply, toH, InferenceReply(tid, ok, IF ok THEN "" ELSE ErrRun))
  /\ UNCHANGED <<sessions, initializingModels, loads, nextLoad, obtained>>
  /\ UNCHANGED <<now, nextId, clients, requests, browserVars, listener, discarded, wCall, pendingRequests, timers, toW>>
  /\ UNCHANGED <<initVars, coreVars, hostVars>>

\* the forward function of the inference package throws an error with the
\* given message; the catch block of handleInferenceRequest replies with
\* error.message
ForwardThrows(tid, msg) ==
  /\ tid \in DOMAIN tasks
  /\ tasks[tid].pc = "run"
  /\ tasks' = Remove(tasks, tid)
  /\ taskLog' = Put(taskLog, tid, [kind |-> tasks[tid].kind, ok |-> FALSE, error |-> msg])
  /\ toH' = PostTo(tasks[tid].reply, toH, InferenceReply(tid, FALSE, msg))
  /\ UNCHANGED <<sessions, initializingModels, loads, nextLoad, obtained>>
  /\ UNCHANGED <<now, nextId, clients, requests, browserVars, listener, discarded, wCall, pendingRequests, timers, toW>>
  /\ UNCHANGED <<initVars, coreVars, hostVars>>

\* a route of sw.ts or index.ts calls the worker directly
\* (POST /initialize_speaker -> initializeSession; the forward functions are
\* also what handleInferenceRequest calls for every inference message)
CallWorker(kind, speakerId) ==
  /\ nextId <= MaxTasks
  /\ StartCall(nextId, kind, speakerId, NoId)
  /\ nextId' = nextId + 1
  /\ UNCHANGED <<now, clients, requests, browserVars, listener, discarded, wCall, pendingRequests, timers, toH, toW>>
  /\ UNCHANGED <<initVars, coreVars, hostVars>>

\* GET /is_initialized_speaker: the route answers with
\* inferenceWorker.sessionInitialized(speaker)
isInitializedSpeaker(speakerId) ==
  /\ nextId <= MaxTasks
  /\ taskLog' = Put(taskLog, nextId,
        [kind |-> "sessionInitialized", ok |-> sessionInitialized(speakerId), error |-> ""])
  /\ nextId' = nextId + 1
  /\ UNCHANGED <<tasks, sessions, initializingModels, loads, nextLoad, obtained>>
  /\ UNCHANGED <<now, clients, requests, browserVars, listener, discarded, wCall, pendingRequests, timers, toH, toW>>
  /\ UNCHANGED <<initVars, coreVars, hostVars>>

\* =========================================================================
\* MainThreadEngine / Engine: initializeCore
\* =========================================================================
NoEngine ==
  [exists |-> FALSE, isInitialized |-> FALSE, initializeInProgress |-> FALSE,
   dotnetExportedFunctions |-> FALSE, inferenceHandler |-> FALSE]

\* new MainThreadEngine() / new Engine()
NewEngine == [NoEngine EXCEPT !.exists = TRUE]

\* at: where the running initializeCore body stood when the call was made
CoreCall(result, error, at) == [result |-> result, error |-> error, at |-> at]

\* the initializeCore call whose body is running
RunningCore == CHOOSE c \in DOMAIN coreCalls : coreCalls[c].result = "running"

\* an initializeCore that would not test initializeInProgress
CoreNeverRejects(e) == FALSE

\* the two guards at the head of initializeCore
CoreRejectsCall(e) == e.initializeInProgress
CoreResolvesCall(e) == e.isInitialized

\* initializeCore up to its first await, on engine e: what the call returns
\* at once ("rejected", "resolved") or "running" when it starts the bootstrap
initializeCoreEnter(e) ==
  IF CoreRejectsCall(e) THEN "rejected"
  ELSE IF CoreResolvesCall(e) THEN "resolved"
  ELSE "running"

initializeCore(e) ==
  LET r == initializeCoreEnter(e)
  IN /\ coreCalls' = Append(coreCalls,
          CoreCall(r, IF r = "rejected" THEN ErrAlreadyInProgress ELSE "", corePc))
     /\ engine' = IF r = "running" THEN [e EXCEPT !.initializeInProgress = TRUE] ELSE e
     /\ corePc' = IF r = "running" THEN "bootstrap" ELSE corePc
     /\ bootstrapCount' = IF r = "running" THEN bootstrapCount + 1 ELSE bootstrapCount

\* what a failing step of initializeCore leaves behind: nothing resets
\* initializeInProgress (there is no try / finally around the awaits)
CoreFailed(e) == e

\* `await initialize({...})` settles
CoreBootstrapDone(ok) ==
  /\ corePc = "bootstrap"
  /\ engine' = IF ok THEN [engine EXCEPT !.dotnetExportedFunctions = TRUE]
               ELSE CoreFailed(engine)
  /\ corePc' = IF ok THEN "mount" ELSE "failed"
  /\ coreCalls' = IF ok THEN coreCalls
                  ELSE [coreCalls EXCEPT ![RunningCore] = CoreCall("rejected", ErrBootstrap, @.at)]
  /\ bootstrapCount' = bootstrapCount

\* a last step that would leave initializeInProgress set
CoreReadyOnly(e) == [e EXCEPT !.isInitialized = TRUE]

\* MountDictionaryAsync settles, then SynthesisExports.Initialize runs, then
\* the flags are set: outcome is "ok", "mount" (the mount rejects) or
\* "exports" (SynthesisExports.Initialize throws)
CoreReady(e) == [e EXCEPT !.isInitialized = TRUE, !.initializeInProgress = FALSE]

CoreMountDone(outcome) ==
  /\ corePc = "mount"
  /\ engine' = IF outcome = "ok" THEN CoreReady(engine) ELSE CoreFailed(engine)
  /\ corePc' = IF outcome = "ok" THEN "done" ELSE "failed"
  /\ coreCalls' = [coreCalls EXCEPT ![RunningCore] =
        IF outcome = "ok" THEN CoreCall("resolved", "", @.at)
        ELSE CoreCall("rejected", IF outcome = "mount" THEN ErrMount ELSE ErrExports, @.at)]
  /\ bootstrapCount' = bootstrapCount

\* =========================================================================
\* H: sw-proxy.ts
\* =========================================================================
Response(id, ok, err) == Msg(id, "response", "", ok, err, id)

\* a listener whose handlers would end without posting anything
DropAll(hs, ok, err) ==
  /\ toW' = toW
  /\ hHandlers' = [h \in DOMAIN hHandlers \ hs |-> hHandlers[h]]

\* the message listener's reply for the handlers hs (in arrival order), which
\* then are over
ReplyAll(hs, ok, err) ==
  LET s == SortedSeq(hs)
  IN /\ toW' = toW \o [i \in DOMAIN s |-> Response(s[i], ok, err)]
     /\ hHandlers' = [h \in DOMAIN hHandlers \ hs |-> hHandlers[h]]

AwaitingInit == {h \in DOMAIN hHandlers : hHandlers[h].pc = "awaitInit"}

\* an initializeEngine that would clear initPromise when its body throws
InitPromiseCleared == "null"

\* what initializeEngine leaves in initPromise when its body throws
InitPromiseAfterFailure == "rejected"

\* initializeEngine's async body ends: initPromise settles and every
\* 'initialize' handler awaiting it replies
InitSettles(ok, err) ==
  /\ isInitialized' = IF ok THEN TRUE ELSE isInitialized
  /\ initPromise' = IF ok THEN "fulfilled" ELSE InitPromiseAfterFailure
  /\ initPc' = IF ok THEN "done" ELSE "failed"
  /\ initError' = err
  /\ ReplyAll(AwaitingInit, ok, err)

\* the fetch of the dictionary archive settles; on success initializeEngine
\* calls engine.initializeCore
InitFetchDone(ok) ==
  /\ initPc = "fetch"
  /\ IF ok
     THEN /\ initializeCore(engine)
          /\ LET r == initializeCoreEnter(engine)
             IN IF r = "running"
                THEN /\ initPc' = "core"
                     /\ UNCHANGED <<isInitialized, initPromise, initError, toW, hHandlers>>
                ELSE InitSettles(r = "resolved", IF r = "resolved" THEN "" ELSE ErrAlreadyInProgress)
     ELSE /\ InitSettles(FALSE, ErrFetch)
          /\ UNCHANGED coreVars
  /\ UNCHANGED <<now, nextId, clients, requests, browserVars, listener, discarded, wCall, pendingRequests, timers, toH>>
  /\ UNCHANGED <<engineCount, hCall, pendingInferenceRequests, runtimeLog>>
  /\ UNCHANGED cacheVars

\* the runtime bootstrap settles; when H's initializeEngine awaits this
\* initializeCore call, a failure ends initializeEngine's body too
BootstrapDone(ok) ==
  /\ CoreBootstrapDone(ok)
  /\ IF initPc = "core" /\ ~ok
     THEN InitSettles(FALSE, ErrBootstrap)
     ELSE UNCHANGED <<isInitialized, initPromise, initPc, initError, toW, hHandlers>>
  /\ UNCHANGED <<now, nextId, clients, requests, browserVars, listener, discarded, wCall, pendingRequests, timers, toH>>
  /\ UNCHANGED <<engineCount, hCall, pendingInferenceRequests, runtimeLog>>
  /\ UNCHANGED cacheVars

MountDone(outcome) ==
  /\ CoreMountDone(outcome)
  /\ IF initPc = "core"
     THEN InitSettles(outcome = "ok",
            IF outcome = "ok" THEN "" ELSE IF outcome = "mount" THEN ErrMount ELSE ErrExports)
     ELSE UNCHANGED <<isInitialized, initPromise, initPc, initError, toW, hHandlers>>
  /\ UNCHANGED <<now, nextId, clients, requests, browserVars, listener, discarded, wCall, pendingRequests, timers, toH>>
  /\ UNCHANGED <<engineCount, hCall, pendingInferenceRequests, runtimeLog>>
  /\ UNCHANGED cacheVars

\* does handleMessage refuse the message because no engine exists?
EngineMissing(type) == ~engine.exists /\ type # "initialize"

\* the guard of getAudioQuery / getAccentPhrases / getMoraData / synthesize
CoreMissing == ~engine.dotnetExportedFunctions

\* an initializeEngine that would return at once, whatever the state
RepliesAtOnce == "done"

\* an initializeEngine that would not look at isInitialized
RestartsEngine ==
  IF initPromise = "pending" THEN "join" ELSE "start"

\* initializeEngine up to its first await, called by an 'initialize' message:
\* "done" (already initialized), "join" (return the existing initPromise) or
\* "start" (construct the engine, start the fetch)
initializeEngine ==
  IF isInitialized THEN "done"
  ELSE IF initPromise # "null" THEN "join"
  ELSE "start"

\* registerServiceWorkerWithProxy up to its await: the page asks the browser
\* to register /sw.js
registerServiceWorkerWithProxy ==
  /\ listener = "none"
  /\ listener' = "registering"
  /\ UNCHANGED <<now, nextId, clients, requests, browserVars, discarded, wCall, pendingRequests, timers, toH, toW>>
  /\ UNCHANGED <<initVars, coreVars, hostVars, cacheVars>>

\* navigator.serviceWorker.register settles: when it resolves,
\* setupServiceWorkerProxy adds the message listener; when it rejects, the
\* catch block logs the error and returns null, and no listener is ever added
registerSettles(ok) ==
  /\ listener = "registering"
  /\ listener' = IF ok THEN "installed" ELSE "failed"
  /\ UNCHANGED <<now, nextId, clients, requests, browserVars, discarded, wCall, pendingRequests, timers, toH, toW>>
  /\ UNCHANGED <<initVars, coreVars, hostVars, cacheVars>>

\* navigator.serviceWorker has the message listener of setupServiceWorkerProxy
Listening == listener = "installed"

\* the browser dispatches a message of W to a page that has added no message
\* listener: nothing handles it, no reply is sent, the message is gone
messageUnheard ==
  /\ toH # <<>>
  /\ ~Listening
  /\ toH' = Tail(toH)
  /\ UNCHANGED <<now, nextId, clients, listener, requests, browserVars, discarded, wCall, pendingRequests, timers, toW>>
  /\ UNCHANGED <<initVars, coreVars, hostVars, cacheVars>>

\* the message listener of setupServiceWorkerProxy for a call message
\* (anything that is not an inferenceResponse): handleMessage, then the reply
handleMessage ==
  /\ Listening
  /\ toH # <<>>
  /\ Head(toH).type # "inferenceResponse"
  /\ LET m == Head(toH)
         h == [type |-> m.type, pc |-> "runtime", wait |-> NoId]
     IN /\ toH' = Tail(toH)
        /\ IF EngineMissing(m.type)
           THEN /\ toW' = Append(toW, Response(m.id, FALSE, ErrEngineNotInitialized))
                /\ UNCHANGED <<hHandlers, runtimeLog, engine, initPromise, initPc, engineCount>>
           ELSE IF m.type = "initialize"
           THEN /\ runtimeLog' = runtimeLog
                /\ CASE initializeEngine = "done" ->
                          /\ toW' = Append(toW, Response(m.id, TRUE, ""))
                          /\ UNCHANGED <<hHandlers, engine, initPromise, initPc, engineCount>>
                     [] initializeEngine = "join" /\ initPromise = "pending" ->
                          /\ hHandlers' = Put(hHandlers, m.id, [h EXCEPT !.pc = "awaitInit"])
                          /\ UNCHANGED <<toW, engine, initPromise, initPc, engineCount>>
                     [] initializeEngine = "join" /\ initPromise # "pending" ->
                          /\ toW' = Append(toW,
                                Response(m.id, initPromise = "fulfilled", initError))
                          /\ UNCHANGED <<hHandlers, engine, initPromise, initPc, engineCount>>
                     [] OTHER ->
                          /\ engine' = [NewEngine EXCEPT !.inferenceHandler = TRUE]
                          /\ engineCount' = engineCount + 1
                          /\ initPromise' = "pending"
                          /\ initPc' = "fetch"
                          /\ hHandlers' = Put(hHandlers, m.id, [h EXCEPT !.pc = "awaitInit"])
                          /\ toW' = toW
           ELSE IF m.type \notin OpTypes
           THEN \* default case: a warning, handleMessage returns null and the
                \* listener replies with success
                /\ toW' = Append(toW, Msg(m.id, "response", "", TRUE, "", NoId))
                /\ UNCHANGED <<hHandlers, runtimeLog, engine, initPromise, initPc, engineCount>>
           ELSE /\ UNCHANGED <<engine, initPromise, initPc, engineCount>>
                /\ IF CoreMissing
                   THEN /\ toW' = Append(toW, Response(m.id, FALSE, ErrCoreNotInitialized))
                        /\ UNCHANGED <<hHandlers, runtimeLog>>
                   ELSE /\ hHandlers' = Put(hHandlers, m.id, h)
                        /\ runtimeLog' = runtimeLog \cup
                              {[id |-> m.id, type |-> m.type, corePc |-> corePc,
                                ready |-> engine.isInitialized]}
                        /\ toW' = toW
  /\ UNCHANGED <<now, nextId, clients, requests, browserVars, listener, discarded, wCall, pendingRequests, timers>>
  /\ UNCHANGED <<isInitialized, initError, corePc, coreCalls, bootstrapCount>>
  /\ UNCHANGED <<hCall, pendingInferenceRequests>>
  /\ UNCHANGED cacheVars

NewCall(type, owner, id, deadline) ==
  [type |-> type, owner |-> owner, id |-> id, deadline |-> deadline,
   result |-> "pending", error |-> "", data |-> NoId,
   settles |-> 0, removes |-> 0, posts |-> 1, ready |-> isInitialized]

\* a handler whose runtime would go on without awaiting the forward callback
KeepsRunning(handler, id) == handler

\* the handler of a runtime that awaits the promise its forward callback
\* returned
AwaitsForward(handler, id) == [handler EXCEPT !.pc = "nested", !.wait = id]

\* a timer that would be due at once
NoDelay == now

\* the instant at which the timer armed by sendInferenceToServiceWorker runs:
\* setTimeout(..., 60000)
InferenceDeadline == now + TimeoutMs

\* the synthesis runtime, while it serves handler h, calls one of the three
\* injected forward callbacks: proxy*Forward -> sendInferenceToServiceWorker
\* (max: how many nested calls the runtime issues in all)
NestedCall(h, inferenceType, max) ==
  /\ h \in DOMAIN hHandlers
  /\ hHandlers[h].pc = "runtime"
  /\ Cardinality(DOMAIN hCall) < max
  /\ LET id == nextId
         deadline == InferenceDeadline
     IN /\ pendingInferenceRequests' = Put(pendingInferenceRequests, id, id)
        /\ hCall' = Put(hCall, id, NewCall(inferenceType, h, id, deadline))
        /\ timers' = timers \cup {[ctx |-> "H", id |-> id, deadline |-> deadline]}
        /\ toW' = Append(toW, Msg(id, "inference", inferenceType, FALSE, "", InferenceData))
        /\ hHandlers' = [hHandlers EXCEPT ![h] = AwaitsForward(@, id)]
        /\ nextId' = nextId + 1
  /\ UNCHANGED <<now, clients, requests, browserVars, listener, discarded, wCall, pendingRequests, toH, runtimeLog>>
  /\ UNCHANGED <<initVars, coreVars, cacheVars>>

sendInferenceToServiceWorker(h, inferenceType) == NestedCall(h, inferenceType, MaxHCalls)

\* the runtime operation served by handler h returns or throws
RuntimeDone(h, ok) ==
  /\ h \in DOMAIN hHandlers
  /\ hHandlers[h].pc = "runtime"
  /\ ReplyAll({h}, ok, IF ok THEN "" ELSE ErrRuntime)
  /\ UNCHANGED <<now, nextId, clients, requests, browserVars, listener, discarded, wCall, pendingRequests, timers, toH>>
  /\ UNCHANGED <<hCall, pendingInferenceRequests, runtimeLog>>
  /\ UNCHANGED <<initVars, coreVars, cacheVars>>

\* the runtime operation served by handler h throws an error with the given
\* message; the listener's catch block replies with error.message
RuntimeThrows(h, msg) ==
  /\ h \in DOMAIN hHandlers
  /\ hHandlers[h].pc = "runtime"
  /\ ReplyAll({h}, FALSE, msg)
  /\ UNCHANGED <<now, nextId, clients, requests, browserVars, listener, discarded, wCall, pendingRequests, timers, toH>>
  /\ UNCHANGED <<hCall, pendingInferenceRequests, runtimeLog>>
  /\ UNCHANGED <<initVars, coreVars, cacheVars>>

\* a nested call of H settles: its runtime operation goes on, or fails with
\* the same error (the runtime was waiting for it, see AwaitsForward)
NestedSettles(id, k, after, ok, err, data) ==
  LET h == hCall[k].owner
  IN /\ pendingInferenceRequests' = after
     /\ hCall' = [hCall EXCEPT ![k] =
                    [Settle(@, ok, err, data) EXCEPT
                       !.removes = @ + Removed(pendingInferenceRequests, after, id)]]
     /\ IF h \in DOMAIN hHandlers /\ hHandlers[h].wait = k /\ hCall[k].result = "pending"
        THEN IF ok
             THEN /\ hHandlers' = [hHandlers EXCEPT ![h].pc = "runtime", ![h].wait = NoId]
                  /\ toW' = toW
             ELSE ReplyAll({h}, FALSE, err)
        ELSE UNCHANGED <<hHandlers, toW>>

\* handleInferenceResponse
handleInferenceResponse ==
  /\ Listening
  /\ toH # <<>>
  /\ Head(toH).type = "inferenceResponse"
  /\ LET m == Head(toH)
     IN /\ toH' = Tail(toH)
        /\ IF Lookup(pendingInferenceRequests, m.id) # NoId
           THEN /\ NestedSettles(m.id, Lookup(pendingInferenceRequests, m.id),
                     Remove(pendingInferenceRequests, m.id), m.success,
                     IF m.success THEN "" ELSE IF m.error # "" THEN m.error ELSE ErrInferenceFailed,
                     m.data)
                /\ discarded' = discarded
           ELSE /\ discarded' = discarded \cup {m.id}
                /\ UNCHANGED <<pendingInferenceRequests, hCall, hHandlers, toW>>
  /\ UNCHANGED <<now, nextId, clients, requests, browserVars, listener, wCall, pendingRequests, timers, runtimeLog>>
  /\ UNCHANGED <<initVars, coreVars, cacheVars>>

\* =========================================================================
\* W: sw.ts
\* =========================================================================
\* a sendToMainThread that would not look at the length of the client list
AnyClient == TRUE

\* does sendToMainThread find a window client?
HasClient == clients # <<>>

\* a sendToMainThread that would post its call message a second time
CallTwice(type, max) ==
  /\ Len(wCall) < max
  /\ HasClient
  /\ wCall' = Append(wCall, NewCall(type, NoId, nextId, now + TimeoutMs))
  /\ pendingRequests' = Put(pendingRequests, nextId, Len(wCall) + 1)
  /\ timers' = timers \cup {[ctx |-> "W", id |-> nextId, deadline |-> now + TimeoutMs]}
  /\ toH' = toH \o <<Msg(nextId, type, "", FALSE, "", NoId), Msg(nextId, type, "", FALSE, "", NoId)>>
  /\ nextId' = nextId + 1
  /\ UNCHANGED <<now, clients, requests, browserVars, listener, discarded, toW>>
  /\ UNCHANGED <<initVars, coreVars, hostVars, cacheVars>>

\* sendToMainThread, called by a route (GET /version: 'initialize';
\* POST /audio_query, /accent_phrases, /mora_data, /synthesis: the four
\* delegated operations)
PostCall(type) ==
  IF ~HasClient
  THEN /\ wCall' = Append(wCall,
             [NewCall(type, NoId, NoId, 0) EXCEPT !.result = "rejected",
                !.error = ErrNoClient, !.settles = 1, !.posts = 0])
       /\ UNCHANGED <<pendingRequests, timers, toH, nextId>>
  ELSE LET id == nextId
           deadline == now + TimeoutMs
       IN /\ wCall' = Append(wCall, NewCall(type, NoId, id, deadline))
          /\ pendingRequests' = Put(pendingRequests, id, Len(wCall) + 1)
          /\ timers' = timers \cup {[ctx |-> "W", id |-> id, deadline |-> deadline]}
          /\ toH' = PostTo(FirstClient, toH, Msg(id, type, "", FALSE, "", NoId))
          /\ nextId' = nextId + 1

\* a route calls sendToMainThread and nothing else happens in W
\* (max: how many calls the routes make in all)
CallMainThread(type, max) ==
  /\ Len(wCall) < max
  /\ PostCall(type)
  /\ UNCHANGED <<now, clients, requests, browserVars, listener, discarded, toW>>
  /\ UNCHANGED <<initVars, coreVars, hostVars, cacheVars>>

sendToMainThread(type) == CallMainThread(type, MaxWCalls)

\* a call of W settles through the continuation stored for id
RequestSettles(id, k, after, ok, err, data) ==
  /\ pendingRequests' = after
  /\ wCall' = [wCall EXCEPT ![k] =
                 [Settle(@, ok, err, data) EXCEPT
                    !.removes = @ + Removed(pendingRequests, after, id)]]

\* handleInferenceRequest for a message of type 'response':
\* handleMainThreadResponse
handleMainThreadResponse ==
  /\ toW # <<>>
  /\ Head(toW).type = "response"
  /\ LET m == Head(toW)
     IN /\ toW' = Tail(toW)
        /\ IF Lookup(pendingRequests, m.id) # NoId
           THEN /\ RequestSettles(m.id, Lookup(pendingRequests, m.id),
                     Remove(pendingRequests, m.id), m.success,
                     IF m.success THEN "" ELSE IF m.error # "" THEN m.error ELSE ErrUnknown,
                     m.data)
                /\ discarded' = discarded
           ELSE /\ discarded' = discarded \cup {m.id}
                /\ UNCHANGED <<pendingRequests, wCall>>
  /\ UNCHANGED <<now, nextId, clients, requests, browserVars, listener, timers, toH>>
  /\ UNCHANGED <<initVars, coreVars, hostVars, cacheVars>>

\* a listener that would take no message while a call of W is pending
IdleOnly == DOMAIN pendingRequests = {}

\* may W take the next message off its queue? (always: the listener awaits
\* nothing before it dispatches)
CanReceive == TRUE

\* handleInferenceRequest for a message that is no response, up to its await:
\* a message that is no inference request, or has no inferenceType or no data
\* (NoId stands for a missing data), is ignored; for any other the handler
\* asks for the window clients and waits (a task at "matchAll")
handleInferenceRequest ==
  /\ toW # <<>>
  /\ Head(toW).type # "response"
  /\ CanReceive
  /\ LET m == Head(toW)
     IN /\ toW' = Tail(toW)
        /\ tasks' =
             IF m.type # "inference" \/ m.inferenceType = "" \/ m.data = NoId
             THEN tasks
             ELSE Put(tasks, m.id,
                      [kind |-> m.inferenceType, reply |-> NoId, waits |-> {},
                       pc |-> "matchAll"])
  /\ UNCHANGED <<taskLog, sessions, initializingModels, loads, nextLoad, obtained>>
  /\ UNCHANGED <<now, nextId, clients, requests, browserVars, listener, discarded, wCall, pendingRequests, timers, toH>>
  /\ UNCHANGED <<initVars, coreVars, hostVars>>

\* self.clients.matchAll answers the handler of message tid: without a window
\* client the handler returns; otherwise the forward call of the
\* InferenceWorker starts (speakerId is part of the message's data), or the
\* default case of the switch throws and the catch block replies
clientsMatchAll(tid, speakerId) ==
  /\ tid \in DOMAIN tasks
  /\ tasks[tid].pc = "matchAll"
  /\ IF ~HasClient
     THEN /\ tasks' = Remove(tasks, tid)
          /\ UNCHANGED <<taskLog, sessions, initializingModels, loads, nextLoad, obtained, toH>>
     ELSE IF tasks[tid].kind \notin InferenceTypes
     THEN /\ tasks' = Remove(tasks, tid)
          /\ toH' = PostTo(FirstClient, toH,
                        InferenceReply(tid, FALSE, ErrUnknownInferenceType))
          /\ UNCHANGED <<taskLog, sessions, initializingModels, loads, nextLoad, obtained>>
     ELSE /\ StartCall(tid, tasks[tid].kind, speakerId, FirstClient)
          /\ toH' = toH
  /\ UNCHANGED <<now, nextId, clients, requests, browserVars, listener, discarded, wCall, pendingRequests, timers, toW>>
  /\ UNCHANGED <<initVars, coreVars, hostVars>>

\* ------------------------------------------------------------------ routes
\* the names of the two validation errors of Error.ts
InvalidRequestFieldError == "InvalidRequestFieldError"
InvalidRequestFieldTypeError == "InvalidRequestFieldTypeError"

NoResponse == [status |-> 0, type |-> "", msg |-> ""]

\* an error handler that would answer nothing
Rethrows(err) == NoResponse

\* app.onError: 422 for the two validation errors, else the structured 500
onError(err) ==
  IF err \in {InvalidRequestFieldError, InvalidRequestFieldTypeError}
  THEN [status |-> 422, type |-> "BadRequest", msg |-> err]
  ELSE [status |-> 500, type |-> "InternalServerError", msg |-> "Internal Server Error"]

\* the HTTP response of the route whose delegated call is `call`: the route
\* awaits sendToMainThread and answers in the turn in which the call settles;
\* a rejection is thrown into app.onError
RouteResponse(call) ==
  CASE call.result = "pending" -> NoResponse
    [] call.result = "resolved" -> [status |-> 200, type |-> call.type, msg |-> ""]
    [] OTHER -> onError(call.error)

\* c.req.query(name): undefined when the parameter is not in the URL,
\* otherwise its text
Absent == <<>>
Given(str) == <<str>>

\* Number(str) for the parameter texts below: the number the text converts
\* to, or NaN (an empty or blank text converts to 0, surrounding blanks are
\* dropped, a hexadecimal literal is read, any other text that is not a
\* numeric literal gives NaN)
NaN == [nan |-> TRUE, value |-> 0]
Num(n) == [nan |-> FALSE, value |-> n]
Number(str) ==
  CASE str = "1" -> Num(1)
    [] str = " 1 " -> Num(1)
    [] str = "0x10" -> Num(16)
    [] str = "" -> Num(0)
    [] str = "abc" -> NaN
    [] OTHER -> NaN
isNaN(x) == x.nan

\* the requests the routes are called with
TextParams == {Absent, Given("a")}
SpeakerParams == {Absent, Given("1"), Given(" 1 "), Given("0x10"), Given(""), Given("abc")}
DelegatingRoutes == {"/audio_query", "/accent_phrases", "/mora_data", "/synthesis"}
RequestedRoutes == {"/audio_query", "/synthesis"}

\* the routes that read the query parameter 'text'
NeedsText(route) == route \in {"/audio_query", "/accent_phrases"}

\* the operation a delegating route asks of H
OpOf(route) ==
  CASE route = "/audio_query" -> "audioQuery"
    [] route = "/accent_phrases" -> "accentPhrases"
    [] route = "/mora_data" -> "moraData"
    [] OTHER -> "synthesis"

\* the checks at the head of a delegating route: the error the handler
\* throws, or "" when it goes on to sendToMainThread
Validate(route, text, speaker) ==
  IF NeedsText(route) /\ text = Absent THEN InvalidRequestFieldError
  ELSE IF speaker = Absent THEN InvalidRequestFieldError
  ELSE IF isNaN(Number(speaker[1])) THEN InvalidRequestFieldTypeError
  ELSE ""

\* a request reaches a delegating route
DelegatingRoute(route, text, speaker) ==
  /\ Len(requests) < MaxRequests
  /\ Len(wCall) < MaxWCalls
  /\ LET err == Validate(route, text, speaker)
     IN /\ requests' = Append(requests,
              [route |-> route, text |-> text, speaker |-> speaker, error |-> err,
               call |-> IF err = "" THEN Len(wCall) + 1 ELSE 0])
        /\ IF err = ""
           THEN PostCall(OpOf(route))
           ELSE UNCHANGED <<wCall, pendingRequests, timers, toH, nextId>>
  /\ UNCHANGED <<now, clients, browserVars, listener, discarded, toW>>
  /\ UNCHANGED <<initVars, coreVars, hostVars, cacheVars>>

\* the response to a request: of app.onError when the handler threw, of the
\* handler otherwise
RequestResponse(r) ==
  IF r.error # "" THEN onError(r.error) ELSE RouteResponse(wCall[r.call])

\* =========================================================================
\* timers, clock, clients
\* =========================================================================
\* a timer that would never become due
NeverDue(t) == FALSE

\* setTimeout(..., 60000): the callback may run once the delay has passed
Due(t) == t.deadline <= now

\* the setTimeout callback of sendToMainThread
RequestTimeout(t) ==
  /\ t \in timers
  /\ t.ctx = "W"
  /\ Due(t)
  /\ timers' = timers \ {t}
  /\ IF IsPending(pendingRequests, t.id)
     THEN RequestSettles(t.id, CHOOSE c \in DOMAIN wCall : wCall[c].id = t.id,
            AfterTimeout(pendingRequests, t.id), FALSE, ErrRequestTimeout, NoId)
     ELSE UNCHANGED <<pendingRequests, wCall>>
  /\ UNCHANGED <<now, nextId, clients, requests, browserVars, listener, discarded, toH, toW>>
  /\ UNCHANGED <<initVars, coreVars, hostVars, cacheVars>>

\* the setTimeout callback of sendInferenceToServiceWorker
InferenceTimeout(t) ==
  /\ t \in timers
  /\ t.ctx = "H"
  /\ Due(t)
  /\ timers' = timers \ {t}
  /\ IF IsPending(pendingInferenceRequests, t.id)
     THEN NestedSettles(t.id, t.id, AfterTimeout(pendingInferenceRequests, t.id),
            FALSE, ErrInferenceTimeout, NoId)
     ELSE UNCHANGED <<pendingInferenceRequests, hCall, hHandlers, toW>>
  /\ UNCHANGED <<now, nextId, clients, requests, browserVars, listener, discarded, wCall, pendingRequests, toH, runtimeLog>>
  /\ UNCHANGED <<initVars, coreVars, cacheVars>>

\* time passes; a timer that is due runs before the clock moves on
TickUpTo(last) ==
  /\ now + TickMs <= last
  /\ \A t \in timers : ~Due(t)
  /\ now' = now + TickMs
  /\ UNCHANGED <<nextId, clients, requests, browserVars, listener, discarded, wCall, pendingRequests, timers, toH, toW>>
  /\ UNCHANGED <<initVars, coreVars, hostVars, cacheVars>>

Tick == TickUpTo(MaxTicks * TickMs)

\* the page becomes a window client of the ServiceWorker: the worker that
\* registerServiceWorkerWithProxy or serviceWorkerPlugin registered claims it
\* when it activates, or the page was loaded under a worker registered by an
\* earlier visit. The page's message listener may or may not be there by then,
\* and serviceWorkerPlugin never adds one.
ClientConnects ==
  /\ clients = <<>>
  /\ clients' = <<MainWindow>>
  /\ UNCHANGED <<now, nextId, listener, requests, browserVars, discarded, wCall, pendingRequests, timers, toH, toW>>
  /\ UNCHANGED <<initVars, coreVars, hostVars, cacheVars>>

\* a second window of the ServiceWorker's scope appears: clients.matchAll
\* lists it before or after H's window (the most recently focused comes first)
OtherWindowConnects ==
  /\ clients = <<MainWindow>>
  /\ clients' \in {<<OtherWindow, MainWindow>>, <<MainWindow, OtherWindow>>}
  /\ UNCHANGED <<now, nextId, requests, browserVars, listener, discarded, wCall, pendingRequests, timers, toH, toW>>
  /\ UNCHANGED <<initVars, coreVars, hostVars, cacheVars>>

\* the user focuses the other of the two windows: the order of matchAll turns
FocusChanges ==
  /\ Len(clients) = 2
  /\ clients' = <<clients[2], clients[1]>>
  /\ UNCHANGED <<now, nextId, requests, browserVars, listener, discarded, wCall, pendingRequests, timers, toH, toW>>
  /\ UNCHANGED <<initVars, coreVars, hostVars, cacheVars>>

\* the reply messages in flight that will find no entry
Unmatched ==
  {i \in DOMAIN toW : toW[i].type = "response" /\ toW[i].id \notin DOMAIN pendingRequests}
  \cup {i \in DOMAIN toH : toH[i].type = "inferenceResponse"
                            /\ toH[i].id \notin DOMAIN pendingInferenceRequests}

\* A message that names no pending call reaches a listener: a reply message
\* whose id was never issued (NoId) or a second reply for a call that is
\* already settled. Both listeners take messages from any sender. (One such
\* message at a time, and one for each id.)
StrayReply(ctx, id) ==
  /\ id \notin discarded
  /\ Unmatched = {}
  /\ IF ctx = "W"
     THEN /\ id \in {NoId} \cup {wCall[c].id : c \in {k \in DOMAIN wCall : wCall[k].result # "pending"}}
          /\ toW' = Append(toW, Response(id, TRUE, ""))
          /\ toH' = toH
     ELSE /\ id \in {NoId} \cup {k \in DOMAIN hCall : hCall[k].result # "pending"}
          /\ toH' = Append(toH, InferenceReply(id, TRUE, ""))
          /\ toW' = toW
  /\ UNCHANGED <<now, nextId, clients, requests, browserVars, listener, discarded, wCall, pendingRequests, timers>>
  /\ UNCHANGED <<initVars, coreVars, hostVars, cacheVars>>

\* everything of the two engine contexts, which the browser-side modules
\* below do not touch
engineSide ==
  <<now, nextId, clients, listener, requests, discarded, wCall, pendingRequests, timers,
    toH, toW, initVars, coreVars, hostVars, cacheVars>>

\* =========================================================================
\* sandbox.ts: the invoker and the worker behind it
\* =========================================================================
\* the message types and return values the calls below use
IpcTypes == {"READ_FILE", "WRITE_FILE"}
Returns == {"r1", "r2"}

\* a listener that would look at the type only
MatchesType(inv, m) == m.type = inv.type

\* the test of the listener cb: ev.data.type === type && ev.data.eventId === eventId
Matches(inv, m) == m.type = inv.type /\ m.eventId = inv.eventId

\* invoker(type, args): a fresh eventId, the listener cb is registered and the
\* request is posted to the worker
invoker(type) ==
  /\ Len(invocations) < MaxInvocations
  /\ invocations' = Append(invocations,
        [type |-> type, eventId |-> Len(invocations) + 1, listening |-> TRUE,
         resolves |-> 0, value |-> "", heardOther |-> FALSE])
  /\ UNCHANGED <<fromWorker, engineSide, fileVars, factoryVars>>

\* the worker posts a message to the main thread; the worker's code is not
\* part of these sources, so it may post any type, eventId and return value
WorkerPosts(type, eventId, ret) ==
  /\ Len(fromWorker) < MaxWorkerQueue
  /\ fromWorker' = Append(fromWorker, [type |-> type, eventId |-> eventId, return |-> ret])
  /\ UNCHANGED <<invocations, engineSide, fileVars, factoryVars>>

\* what the listener of one invocation does with the message m
cb(inv, m) ==
  IF ~inv.listening THEN inv
  ELSE IF Matches(inv, m)
  THEN [inv EXCEPT !.listening = FALSE, !.resolves = @ + 1, !.value = m.return]
  ELSE [inv EXCEPT !.heardOther = TRUE]

\* a 'message' event of the worker is dispatched to every registered listener
DispatchMessage ==
  /\ fromWorker # <<>>
  /\ fromWorker' = Tail(fromWorker)
  /\ invocations' = [i \in DOMAIN invocations |-> cb(invocations[i], Head(fromWorker))]
  /\ UNCHANGED <<engineSide, fileVars, factoryVars>>

\* =========================================================================
\* fileImpl.ts: directory dialogs and file operations below a directory handle
\* =========================================================================
\* a path is the sequence of its segments between the separators:
\* path.includes(sep) and path.split(sep)[0]
IncludesSep(path) == Len(path) > 1
FirstSegment(path) == Head(path)

\* the directories the user can pick, the paths the operations are called
\* with, and the names that have a handle in the persistent store (IndexedDB)
\* when the page is loaded
DirNames == {"dirA", "dirB"}
Paths == {<<"f">>, <<"dirA", "f">>, <<"dirB", "f">>}
StoredHandles == {"dirA"}

\* the key of the directory picked by a save / load dialog
lastSelectedDirectoryHandleSymbol == "Symbol(lastSelectedDirectoryHandle)"

\* the picker was cancelled: showWritableDirectoryPicker gives undefined
NoPick == ""

\* what requestPermission({mode: "readwrite"}) resolves with: a PermissionState
PermissionStates == {"granted", "denied", "prompt"}

\* the truth value JavaScript gives a string
Truthy(str) == str # ""

\* the test the three operations apply to the awaited permission state:
\* !(await maybeFixedDirectory.requestPermission({ mode: "readwrite" }))
PermissionRefused(state) == ~Truthy(state)

FileOperations == {"writeFile", "readFile", "checkFileExists"}

\* the dialogs: showOpenDirectoryDialogImpl, and the five save / load dialogs
\* (requestSaveFileNameWithDirectoryPermission and its load twin)
DialogKinds == {"openDirectory", "file"}

isRootPathButDirectoryNotSelected(path) ==
  /\ lastSelectedDirectoryHandleSymbol \notin DOMAIN directoryHandleMap
  /\ ~IncludesSep(path)

\* what an operation returns when it gives up before touching a file
NoAccessResult(op) ==
  CASE op = "writeFile" -> "error result"
    [] op = "readFile" -> "rejected"
    [] OTHER -> "false"

\* what an operation returns after it went to the file system with the handle
\* (state: the permission the handle has, found: the file is there); the
\* browser throws NotAllowedError from getFileHandle and entries() unless the
\* permission is granted, and NotFoundError from getFileHandle(path) for a
\* file that is not there
AccessResult(op, state, found) ==
  CASE op = "writeFile" -> IF state = "granted" THEN "undefined" ELSE "error result"
    [] op = "readFile" -> IF state = "granted" /\ found THEN "resolved" ELSE "rejected"
    [] OTHER -> IF state # "granted" THEN "rejected"
                ELSE IF found THEN "true" ELSE "false"

\* the record of an operation that ended without a file access
GaveUp(op, path, fromStore, state) ==
  [op |-> op, path |-> path, pc |-> "done", fromStore |-> fromStore,
   permission |-> state, directory |-> "", accessed |-> FALSE,
   result |-> NoAccessResult(op)]

\* the record of an operation that ended because an awaited promise rejected
\* outside any catch: openDB() in fetchStoredDirectoryHandle (fromStore is
\* FALSE), or requestPermission() on the stored handle (fromStore is TRUE);
\* the rejection leaves the operation itself
Rejected(op, path, fromStore) ==
  [op |-> op, path |-> path, pc |-> "done", fromStore |-> fromStore,
   permission |-> "", directory |-> "", accessed |-> FALSE,
   result |-> "rejected"]

\* the record of an operation that called getFileHandle / entries() on the
\* handle of `directory` and waits for the file system
Accessed(op, path, fromStore, state, directory) ==
  [op |-> op, path |-> path, pc |-> "access", fromStore |-> fromStore,
   permission |-> state, directory |-> directory, accessed |-> TRUE,
   result |-> ""]

\* the record of an operation waiting for the store or the permission answer
Waiting(op, path, pc) ==
  [op |-> op, path |-> path, pc |-> pc, fromStore |-> pc = "permission",
   permission |-> "", directory |-> "", accessed |-> FALSE, result |-> ""]

\* writeFileImpl / readFileImpl / checkFileExistsImpl up to the first await:
\* a path without separator uses the last selected directory, a cached name
\* its handle, and any other name asks the persistent store
FileOp(op, path) ==
  /\ Len(fileOps) < MaxFileOps
  /\ fileOps' = Append(fileOps,
       IF isRootPathButDirectoryNotSelected(path) THEN GaveUp(op, path, FALSE, "")
       ELSE IF ~IncludesSep(path)
       THEN Accessed(op, path, FALSE, "",
                     directoryHandleMap[lastSelectedDirectoryHandleSymbol])
       ELSE IF FirstSegment(path) \in DOMAIN directoryHandleMap
       THEN Accessed(op, path, FALSE, "", directoryHandleMap[FirstSegment(path)])
       ELSE Waiting(op, path, "store"))
  /\ UNCHANGED <<directoryHandleMap, storedHandles, dialogs>>
  /\ UNCHANGED <<engineSide, sandboxVars, factoryVars>>

\* the ways fetchStoredDirectoryHandle ends: the get request succeeds (with
\* the handle or undefined), the get request fails (swallowed: undefined),
\* or openDB() rejects (not caught)
StoreOutcomes == {"onsuccess", "onerror", "openDB rejects"}

\* fetchStoredDirectoryHandle settles
fetchStoredDirectoryHandle(i, outcome) ==
  /\ i \in DOMAIN fileOps
  /\ fileOps[i].pc = "store"
  /\ LET o == fileOps[i]
     IN fileOps' = [fileOps EXCEPT ![i] =
          IF outcome = "openDB rejects" THEN Rejected(o.op, o.path, FALSE)
          ELSE IF outcome = "onsuccess" /\ FirstSegment(o.path) \in storedHandles
          THEN Waiting(o.op, o.path, "permission")
          ELSE GaveUp(o.op, o.path, FALSE, "")]
  /\ UNCHANGED <<directoryHandleMap, storedHandles, dialogs>>
  /\ UNCHANGED <<engineSide, sandboxVars, factoryVars>>

\* the ways requestPermission({mode: "readwrite"}) settles: it resolves with
\* a PermissionState, or it rejects
PermissionAnswers == PermissionStates \cup {"rejects"}

\* requestPermission settles: a rejection is not caught and rejects the
\* operation with nothing cached; unless the answer is refused the handle is
\* cached under its name and the operation goes to the file
requestPermission(i, state) ==
  /\ i \in DOMAIN fileOps
  /\ fileOps[i].pc = "permission"
  /\ LET o == fileOps[i]
         name == FirstSegment(o.path)
     IN IF state = "rejects"
        THEN /\ fileOps' = [fileOps EXCEPT ![i] = Rejected(o.op, o.path, TRUE)]
             /\ UNCHANGED directoryHandleMap
        ELSE IF PermissionRefused(state)
        THEN /\ fileOps' = [fileOps EXCEPT ![i] = GaveUp(o.op, o.path, TRUE, state)]
             /\ UNCHANGED directoryHandleMap
        ELSE /\ directoryHandleMap' = Put(directoryHandleMap, name, name)
             /\ fileOps' = [fileOps EXCEPT ![i] = Accessed(o.op, o.path, TRUE, state, name)]
  /\ UNCHANGED <<storedHandles, dialogs>>
  /\ UNCHANGED <<engineSide, sandboxVars, factoryVars>>

\* the file system answers getFileHandle / entries() and what follows them
\* (state: the permission the handle has by now, for a handle taken from the
\* store the answer its permission request got; found: the file is there)
fileSystemAnswers(i, state, found) ==
  /\ i \in DOMAIN fileOps
  /\ fileOps[i].pc = "access"
  /\ LET o == fileOps[i]
         has == IF o.fromStore THEN o.permission ELSE state
     IN fileOps' = [fileOps EXCEPT ![i] =
          [o EXCEPT !.pc = "done", !.permission = has,
                    !.result = AccessResult(o.op, has, found)]]
  /\ UNCHANGED <<directoryHandleMap, storedHandles, dialogs>>
  /\ UNCHANGED <<engineSide, sandboxVars, factoryVars>>

\* a dialog is called: showOpenDirectoryDialogImpl always shows the directory
\* picker, a save / load dialog only when no directory was selected before
showDialog(kind) ==
  /\ Len(dialogs) < MaxDialogs
  /\ dialogs' = Append(dialogs,
       [kind |-> kind, pick |-> NoPick,
        pc |-> IF kind = "file" /\ lastSelectedDirectoryHandleSymbol \in DOMAIN directoryHandleMap
               THEN "done" ELSE "picker"])
  /\ UNCHANGED <<directoryHandleMap, storedHandles, fileOps>>
  /\ UNCHANGED <<engineSide, sandboxVars, factoryVars>>

\* showWritableDirectoryPicker answers: the user picked `pick` or cancelled
showWritableDirectoryPicker(d, pick) ==
  /\ d \in DOMAIN dialogs
  /\ dialogs[d].pc = "picker"
  /\ dialogs' = [dialogs EXCEPT ![d] =
       [@ EXCEPT !.pick = pick, !.pc = IF pick = NoPick THEN "done" ELSE "store"]]
  /\ UNCHANGED <<directoryHandleMap, storedHandles, fileOps>>
  /\ UNCHANGED <<engineSide, sandboxVars, factoryVars>>

\* storeDirectoryHandle settles (ok: the put succeeded; a failure is only
\* logged) and the dialog goes on in the same turn: the open-directory dialog
\* caches the handle under its name, a save / load dialog as the last
\* selected directory
storeDirectoryHandle(d, ok) ==
  /\ d \in DOMAIN dialogs
  /\ dialogs[d].pc = "store"
  /\ LET pick == dialogs[d].pick
         key == IF dialogs[d].kind = "openDirectory" THEN pick
                ELSE lastSelectedDirectoryHandleSymbol
     IN /\ storedHandles' = IF ok THEN storedHandles \cup {pick} ELSE storedHandles
        /\ directoryHandleMap' = Put(directoryHandleMap, key, pick)
        /\ dialogs' = [dialogs EXCEPT ![d].pc = "done"]
  /\ UNCHANGED fileOps
  /\ UNCHANGED <<engineSide, sandboxVars, factoryVars>>

\* =========================================================================
\* OpenAPIEngineConnectorFactory: one connector per host
\* =========================================================================
\* the hosts instance() is called with; "constructor" is a text that is also
\* the name of a property every plain object inherits
Hosts == {"http://127.0.0.1:50021", "http://localhost:50021", "constructor"}

\* the values a lookup in instanceMapper can give
undefined == [kind |-> "undefined", n |-> 0]
DefaultApi(n) == [kind |-> "DefaultApi", n |-> n]
ObjectConstructor == [kind |-> "Object", n |-> 0]

\* a lookup that finds nothing
NeverCached(mapper, host) == undefined

\* instanceMapper[host] of the plain object {}: an own property, else the
\* property inherited from Object.prototype, else undefined
Cached(mapper, host) ==
  IF host \in DOMAIN mapper THEN mapper[host]
  ELSE IF host = "constructor" THEN ObjectConstructor
  ELSE undefined

\* OpenAPIEngineConnectorFactory.instance({type: "openapi", host}) and
\* instance(host); the n-th call's new DefaultApi is the object DefaultApi(n)
instance(host) ==
  /\ Len(instanceCalls) < MaxInstanceCalls
  /\ LET cached == Cached(instanceMapper, host)
         api == DefaultApi(Len(instanceCalls) + 1)
     IN IF cached # undefined
        THEN /\ instanceCalls' = Append(instanceCalls, [host |-> host, value |-> cached])
             /\ UNCHANGED instanceMapper
        ELSE /\ instanceMapper' = (host :> api) @@ instanceMapper
             /\ instanceCalls' = Append(instanceCalls, [host |-> host, value |-> api])
  /\ UNCHANGED <<engineSide, sandboxVars, fileVars>>

\* the state of the browser-side modules when they are loaded
BrowserInit ==
  /\ invocations = <<>>
  /\ fromWorker = <<>>
  /\ directoryHandleMap = <<>>
  /\ storedHandles = StoredHandles
  /\ fileOps = <<>>
  /\ dialogs = <<>>
  /\ instanceMapper = <<>>
  /\ instanceCalls = <<>>

\* =========================================================================
\* the two contexts together
\* =========================================================================
Init ==
  /\ now = 0
  /\ nextId = 1
  /\ clients = <<>>
  /\ discarded = {}
  /\ wCall = <<>>
  /\ pendingRequests = <<>>
  /\ timers = {}
  /\ toH = <<>>
  /\ toW = <<>>
  /\ engine = NoEngine
  /\ isInitialized = FALSE
  /\ initPromise = "null"
  /\ initPc = "none"
  /\ initError = ""
  /\ corePc = "idle"
  /\ coreCalls = <<>>
  /\ bootstrapCount = 0
  /\ engineCount = 0
  /\ hHandlers = <<>>
  /\ hCall = <<>>
  /\ pendingInferenceRequests = <<>>
  /\ runtimeLog = {}
  /\ tasks = <<>>
  /\ taskLog = <<>>
  /\ sessions = [mt \in ModelTypeSet |-> <<>>]
  /\ initializingModels = <<>>
  /\ loads = <<>>
  /\ nextLoad = 1
  /\ obtained = {}
  /\ requests = <<>>
  /\ BrowserInit
  /\ listener = "none"

Next ==
  \/ registerServiceWorkerWithProxy
  \/ \E ok \in BOOLEAN : registerSettles(ok)
  \/ ClientConnects
  \/ messageUnheard
  \/ \E type \in MessageTypes : sendToMainThread(type)
  \/ handleMessage
  \/ \E ok \in BOOLEAN : InitFetchDone(ok)
  \/ \E ok \in BOOLEAN : BootstrapDone(ok)
  \/ \E outcome \in {"ok", "mount", "exports"} : MountDone(outcome)
  \/ \E h \in DOMAIN hHandlers, it \in InferenceTypes : sendInferenceToServiceWorker(h, it)
  \/ \E h \in DOMAIN hHandlers, ok \in BOOLEAN : RuntimeDone(h, ok)
  \/ handleInferenceResponse
  \/ handleMainThreadResponse
  \/ handleInferenceRequest
  \/ \E tid \in DOMAIN tasks, speakerId \in Speakers : clientsMatchAll(tid, speakerId)
  \/ \E lid \in DOMAIN loads, ok \in BOOLEAN : LoadDone(lid, ok)
  \/ \E tid \in DOMAIN tasks, ok \in BOOLEAN : RunDone(tid, ok)
  \/ \E t \in timers : RequestTimeout(t)
  \/ \E t \in timers : InferenceTimeout(t)
  \/ Tick

Spec == Init /\ [][Next]_vars

\* =========================================================================
\* the InferenceWorker alone: its callers reach it at any time
\* =========================================================================
WorkerCalls == InferenceTypes \cup {"initializeSession"}

CacheNext ==
  \/ \E kind \in WorkerCalls, speakerId \in Speakers : CallWorker(kind, speakerId)
  \/ \E lid \in DOMAIN loads, ok \in BOOLEAN : LoadDone(lid, ok)
  \/ \E tid \in DOMAIN tasks, ok \in BOOLEAN : RunDone(tid, ok)

CacheSpec == Init /\ [][CacheNext]_vars

\* the InferenceWorker with warm-up calls only (POST /initialize_speaker): no
\* inference request runs
WarmUpNext ==
  \/ \E speakerId \in Speakers : CallWorker("initializeSession", speakerId)
  \/ \E lid \in DOMAIN loads, ok \in BOOLEAN : LoadDone(lid, ok)

WarmUpSpec == Init /\ [][WarmUpNext]_vars

\* the InferenceWorker with the route that asks for a speaker's state
QueryNext ==
  \/ \E speakerId \in Speakers : isInitializedSpeaker(speakerId)
  \/ \E kind \in WorkerCalls, speakerId \in Speakers : CallWorker(kind, speakerId)
  \/ \E lid \in DOMAIN loads, ok \in BOOLEAN : LoadDone(lid, ok)
  \/ \E tid \in DOMAIN tasks, ok \in BOOLEAN : RunDone(tid, ok)

QuerySpec == Init /\ [][QueryNext]_vars

\* =========================================================================
\* the Engine of index.ts alone: GET /version calls engine.initializeCore,
\* the synthesis routes call the engine's operations
\* =========================================================================
EngineInit ==
  /\ Init!1 /\ Init!2 /\ Init!3 /\ Init!4 /\ Init!5 /\ Init!6 /\ Init!7 /\ Init!8
  /\ Init!9
  /\ engine = NewEngine
  /\ isInitialized = FALSE
  /\ initPromise = "null"
  /\ initPc = "none"
  /\ initError = ""
  /\ corePc = "idle"
  /\ coreCalls = <<>>
  /\ bootstrapCount = 0
  /\ engineCount = 1
  /\ hHandlers = <<>>
  /\ hCall = <<>>
  /\ pendingInferenceRequests = <<>>
  /\ runtimeLog = {}
  /\ tasks = <<>>
  /\ taskLog = <<>>
  /\ sessions = [mt \in ModelTypeSet |-> <<>>]
  /\ initializingModels = <<>>
  /\ loads = <<>>
  /\ nextLoad = 1
  /\ obtained = {}
  /\ requests = <<>>
  /\ BrowserInit
  /\ listener = "none"

\* GET /version of index.ts, after its fetch: engine.initializeCore(dict)
CallInitializeCore ==
  /\ Len(coreCalls) < MaxCoreCalls
  /\ initializeCore(engine)
  /\ UNCHANGED <<chanVars, initVars, hostVars, cacheVars>>

\* a synthesis route of index.ts calls engine.getAudioQuery / getAccentPhrases
\* / getMoraData / synthesize: the runtime is invoked unless CoreMissing
CallEngineOp(type) ==
  /\ nextId <= MaxEngineOps
  /\ nextId' = nextId + 1
  /\ runtimeLog' = IF CoreMissing THEN runtimeLog
                   ELSE runtimeLog \cup {[id |-> nextId, type |-> type, corePc |-> corePc,
                                          ready |-> engine.isInitialized]}
  /\ UNCHANGED <<now, clients, requests, browserVars, listener, discarded, wCall, pendingRequests, timers, toH, toW>>
  /\ UNCHANGED <<initVars, coreVars, hHandlers, hCall, pendingInferenceRequests, cacheVars>>

EngineNext ==
  \/ CallInitializeCore
  \/ \E type \in OpTypes : CallEngineOp(type)
  \/ \E ok \in BOOLEAN : BootstrapDone(ok)
  \/ \E outcome \in {"ok", "mount", "exports"} : MountDone(outcome)

EngineSpec == EngineInit /\ [][EngineNext]_vars

\* =========================================================================
\* the two contexts after a successful handshake: the state Spec reaches by
\* registerServiceWorkerWithProxy, registerSettles(TRUE), ClientConnects,
\* sendToMainThread("initialize"), handleMessage,
\* InitFetchDone(TRUE), BootstrapDone(TRUE), MountDone("ok") and
\* handleMainThreadResponse (the timer of that first call is still armed)
\* =========================================================================
ReadyInit ==
  /\ isInitialized = TRUE
  /\ now = 0
  /\ nextId = 2
  /\ clients = <<MainWindow>>
  /\ discarded = {}
  /\ requests = <<>>
  /\ wCall = <<[NewCall("initialize", NoId, 1, TimeoutMs) EXCEPT
                  !.result = "resolved", !.data = 1, !.settles = 1, !.removes = 1,
                  !.ready = FALSE]>>
  /\ pendingRequests = <<>>
  /\ timers = {[ctx |-> "W", id |-> 1, deadline |-> TimeoutMs]}
  /\ toH = <<>>
  /\ toW = <<>>
  /\ engine = [CoreReady(NewEngine) EXCEPT !.dotnetExportedFunctions = TRUE,
                                            !.inferenceHandler = TRUE]
  /\ initPromise = "fulfilled"
  /\ initPc = "done"
  /\ initError = ""
  /\ corePc = "done"
  /\ coreCalls = <<CoreCall("resolved", "", "idle")>>
  /\ bootstrapCount = 1
  /\ engineCount = 1
  /\ hHandlers = <<>>
  /\ hCall = <<>>
  /\ pendingInferenceRequests = <<>>
  /\ runtimeLog = {}
  /\ tasks = <<>>
  /\ taskLog = <<>>
  /\ sessions = [mt \in ModelTypeSet |-> <<>>]
  /\ initializingModels = <<>>
  /\ loads = <<>>
  /\ nextLoad = 1
  /\ obtained = {}
  /\ BrowserInit
  /\ listener = "installed"

ReadyNext ==
  \/ \E type \in Routes : sendToMainThread(type)
  \/ handleMessage
  \/ \E h \in DOMAIN hHandlers, it \in Forwards : sendInferenceToServiceWorker(h, it)
  \/ \E h \in DOMAIN hHandlers, ok \in BOOLEAN : RuntimeDone(h, ok)
  \/ handleInferenceResponse
  \/ handleMainThreadResponse
  \/ handleInferenceRequest
  \/ \E tid \in DOMAIN tasks, speakerId \in Speakers : clientsMatchAll(tid, speakerId)
  \/ \E lid \in DOMAIN loads, ok \in BOOLEAN : LoadDone(lid, ok)
  \/ \E tid \in DOMAIN tasks, ok \in BOOLEAN : RunDone(tid, ok)
  \/ \E t \in timers : RequestTimeout(t)
  \/ \E t \in timers : InferenceTimeout(t)
  \/ Tick

ReadySpec == ReadyInit /\ [][ReadyNext]_vars

\* the same with the guarantees of the timer queue only: time passes and a
\* due setTimeout callback runs; nothing obliges the peer to take a message
\* or to reply. The clock runs one timeout further than in ReadySpec, so that
\* time can pass beyond the deadline of a call made after the first tick.
\* The peers' own steps succeed when they happen (their failures are part of
\* ReadySpec); the failures seen here are those the timers cause.
Horizon == (MaxTicks + 1) * TickMs

DeadlineNext ==
  \/ sendToMainThread("audioQuery")
  \/ handleMessage
  \/ \E h \in DOMAIN hHandlers, it \in Forwards : sendInferenceToServiceWorker(h, it)
  \/ \E h \in DOMAIN hHandlers : RuntimeDone(h, TRUE)
  \/ handleInferenceResponse
  \/ handleMainThreadResponse
  \/ handleInferenceRequest
  \/ \E tid \in DOMAIN tasks, speakerId \in Speakers : clientsMatchAll(tid, speakerId)
  \/ \E lid \in DOMAIN loads : LoadDone(lid, TRUE)
  \/ \E tid \in DOMAIN tasks : RunDone(tid, TRUE)
  \/ \E t \in timers : RequestTimeout(t)
  \/ \E t \in timers : InferenceTimeout(t)
  \/ TickUpTo(Horizon)

TimerFairness ==
  /\ WF_vars(TickUpTo(Horizon))
  /\ WF_vars(\E t \in timers : RequestTimeout(t))
  /\ WF_vars(\E t \in timers : InferenceTimeout(t))

DeadlineSpec == ReadyInit /\ [][DeadlineNext]_vars /\ TimerFairness

\* =========================================================================
\* Both contexts after the handshake with several delegated operations under
\* way at once (concurrent fetches of POST /audio_query), each with a nested
\* inference call; no deadline is reached
\* =========================================================================
MatchNext ==
  \/ CallMainThread("audioQuery", MaxWCalls + 1)
  \/ handleMessage
  \/ \E h \in DOMAIN hHandlers, it \in Forwards : NestedCall(h, it, MaxNested)
  \/ \E h \in DOMAIN hHandlers, ok \in BOOLEAN : RuntimeDone(h, ok)
  \/ handleInferenceResponse
  \/ handleMainThreadResponse
  \/ handleInferenceRequest
  \/ \E tid \in DOMAIN tasks, speakerId \in Speakers : clientsMatchAll(tid, speakerId)
  \/ \E lid \in DOMAIN loads, ok \in BOOLEAN : LoadDone(lid, ok)
  \/ \E tid \in DOMAIN tasks, ok \in BOOLEAN : RunDone(tid, ok)

MatchSpec == ReadyInit /\ [][MatchNext]_vars

\* =========================================================================
\* Both contexts after the handshake with collaborators that throw: the
\* runtime operation in H and the forward function in W throw errors whose
\* message is a text or the empty string (new Error())
\* =========================================================================
ThrownMessages == {ErrRuntime, ErrRun, ""}

ThrowNext ==
  \/ CallMainThread("audioQuery", MaxWCalls + 1)
  \/ handleMessage
  \/ \E h \in DOMAIN hHandlers, it \in Forwards : NestedCall(h, it, MaxNested)
  \/ \E h \in DOMAIN hHandlers : RuntimeDone(h, TRUE)
  \/ \E h \in DOMAIN hHandlers, msg \in ThrownMessages : RuntimeThrows(h, msg)
  \/ handleInferenceResponse
  \/ handleMainThreadResponse
  \/ handleInferenceRequest
  \/ \E tid \in DOMAIN tasks, speakerId \in Speakers : clientsMatchAll(tid, speakerId)
  \/ \E lid \in DOMAIN loads, ok \in BOOLEAN : LoadDone(lid, ok)
  \/ \E tid \in DOMAIN tasks : RunDone(tid, TRUE)
  \/ \E tid \in DOMAIN tasks, msg \in ThrownMessages : ForwardThrows(tid, msg)

ThrowSpec == ReadyInit /\ [][ThrowNext]_vars

\* =========================================================================
\* The delegating routes of W from a cold start, with the timer queue: a
\* request may arrive before any window client exists; with a client, H
\* (which has no engine yet) answers with a failure, or does not answer
\* before the deadline
\* =========================================================================
RouteNext ==
  \/ registerServiceWorkerWithProxy
  \/ \E ok \in BOOLEAN : registerSettles(ok)
  \/ ClientConnects
  \/ messageUnheard
  \/ CallMainThread("audioQuery", MaxWCalls + 1)
  \/ handleMessage
  \/ handleMainThreadResponse
  \/ \E t \in timers : RequestTimeout(t)
  \/ TickUpTo(Horizon)

RouteSpec == Init /\ [][RouteNext]_vars /\ TimerFairness

\* =========================================================================
\* the channel from W to H after the handshake, with stray messages: the
\* routes, H's handlers as long as the runtime asks for no inference, W's
\* timers, and reply messages that name no pending call
\* =========================================================================
StrayNext ==
  \/ \E type \in Routes : sendToMainThread(type)
  \/ handleMessage
  \/ \E h \in DOMAIN hHandlers, ok \in BOOLEAN : RuntimeDone(h, ok)
  \/ handleInferenceResponse
  \/ handleMainThreadResponse
  \/ \E t \in timers : RequestTimeout(t)
  \/ Tick
  \/ \E ctx \in {"W", "H"}, id \in 0..nextId : StrayReply(ctx, id)

StraySpec == ReadyInit /\ [][StrayNext]_vars

\* =========================================================================
\* one synthesis after the handshake whose runtime issues several forward
\* callbacks in turn, while no deadline is reached
\* =========================================================================
NestedNext ==
  \/ sendToMainThread("synthesis")
  \/ handleMessage
  \/ \E h \in DOMAIN hHandlers, it \in InferenceTypes : NestedCall(h, it, MaxNested)
  \/ \E h \in DOMAIN hHandlers, ok \in BOOLEAN : RuntimeDone(h, ok)
  \/ handleInferenceResponse
  \/ handleMainThreadResponse
  \/ handleInferenceRequest
  \/ \E tid \in DOMAIN tasks, speakerId \in Speakers : clientsMatchAll(tid, speakerId)
  \/ \E lid \in DOMAIN loads, ok \in BOOLEAN : LoadDone(lid, ok)
  \/ \E tid \in DOMAIN tasks, ok \in BOOLEAN : RunDone(tid, ok)

NestedSpec == ReadyInit /\ [][NestedNext]_vars

\* =========================================================================
\* Both contexts after the handshake, with callers that also name an
\* operation the peer has no case for: sendToMainThread takes any string as
\* its type, and the inference handler passes its type on unchecked
\* =========================================================================
UnknownNext ==
  \/ \E type \in {"audioQuery", UnknownMessageType} : sendToMainThread(type)
  \/ handleMessage
  \/ \E h \in DOMAIN hHandlers, it \in Forwards \cup {UnknownInferenceType} :
        sendInferenceToServiceWorker(h, it)
  \/ \E h \in DOMAIN hHandlers, ok \in BOOLEAN : RuntimeDone(h, ok)
  \/ handleInferenceResponse
  \/ handleMainThreadResponse
  \/ handleInferenceRequest
  \/ \E tid \in DOMAIN tasks, speakerId \in Speakers : clientsMatchAll(tid, speakerId)
  \/ \E lid \in DOMAIN loads, ok \in BOOLEAN : LoadDone(lid, ok)
  \/ \E tid \in DOMAIN tasks, ok \in BOOLEAN : RunDone(tid, ok)
  \/ \E t \in timers : RequestTimeout(t)
  \/ \E t \in timers : InferenceTimeout(t)
  \/ Tick

UnknownSpec == ReadyInit /\ [][UnknownNext]_vars

\* =========================================================================
\* the two contexts while no deadline is reached: the page may or may not
\* have added its message listener, messages are dispatched (and handled
\* where a listener is there) and every fetch, bootstrap, mount, runtime
\* operation, session load and session run ends (weak fairness); nobody is
\* obliged to issue a call
\* =========================================================================
LiveNext ==
  \/ registerServiceWorkerWithProxy
  \/ \E ok \in BOOLEAN : registerSettles(ok)
  \/ ClientConnects
  \/ messageUnheard
  \/ \E type \in Routes : sendToMainThread(type)
  \/ handleMessage
  \/ \E ok \in BOOLEAN : InitFetchDone(ok)
  \/ \E ok \in BOOLEAN : BootstrapDone(ok)
  \/ \E outcome \in {"ok", "mount", "exports"} : MountDone(outcome)
  \/ \E h \in DOMAIN hHandlers, it \in Forwards : sendInferenceToServiceWorker(h, it)
  \/ \E h \in DOMAIN hHandlers, ok \in BOOLEAN : RuntimeDone(h, ok)
  \/ handleInferenceResponse
  \/ handleMainThreadResponse
  \/ handleInferenceRequest
  \/ \E tid \in DOMAIN tasks, speakerId \in Speakers : clientsMatchAll(tid, speakerId)
  \/ \E lid \in DOMAIN loads, ok \in BOOLEAN : LoadDone(lid, ok)
  \/ \E tid \in DOMAIN tasks, ok \in BOOLEAN : RunDone(tid, ok)

Fairness ==
  /\ WF_vars(handleMessage)
  /\ WF_vars(handleInferenceResponse)
  /\ WF_vars(handleMainThreadResponse)
  /\ WF_vars(handleInferenceRequest)
  /\ WF_vars(\E tid \in DOMAIN tasks, speakerId \in Speakers : clientsMatchAll(tid, speakerId))
  /\ WF_vars(\E ok \in BOOLEAN : InitFetchDone(ok))
  /\ WF_vars(\E ok \in BOOLEAN : BootstrapDone(ok))
  /\ WF_vars(\E outcome \in {"ok", "mount", "exports"} : MountDone(outcome))
  /\ WF_vars(\E h \in DOMAIN hHandlers, ok \in BOOLEAN : RuntimeDone(h, ok))
  /\ WF_vars(\E lid \in DOMAIN loads, ok \in BOOLEAN : LoadDone(lid, ok))
  /\ WF_vars(\E tid \in DOMAIN tasks, ok \in BOOLEAN : RunDone(tid, ok))

LiveSpec == Init /\ [][LiveNext]_vars /\ Fairness

\* after the handshake, with a second window client that may come and take
\* the focus at any time
WindowNext ==
  \/ OtherWindowConnects
  \/ FocusChanges
  \/ CallMainThread("audioQuery", MaxWCalls + 1)
  \/ handleMessage
  \/ \E h \in DOMAIN hHandlers, it \in Forwards : NestedCall(h, it, MaxNested)
  \/ \E h \in DOMAIN hHandlers : RuntimeDone(h, TRUE)
  \/ handleInferenceResponse
  \/ handleMainThreadResponse
  \/ handleInferenceRequest
  \/ \E tid \in DOMAIN tasks, speakerId \in Speakers : clientsMatchAll(tid, speakerId)
  \/ \E lid \in DOMAIN loads : LoadDone(lid, TRUE)
  \/ \E tid \in DOMAIN tasks, ok \in BOOLEAN : RunDone(tid, ok)

WindowSpec == ReadyInit /\ [][WindowNext]_vars

\* after the handshake: requests with every combination of parameters reach
\* the delegating routes, H serves the calls
RequestNext ==
  \/ \E route \in RequestedRoutes, text \in TextParams, speaker \in SpeakerParams :
        DelegatingRoute(route, text, speaker)
  \/ handleMessage
  \/ \E h \in DOMAIN hHandlers, ok \in BOOLEAN : RuntimeDone(h, ok)
  \/ handleMainThreadResponse

RequestSpec == ReadyInit /\ [][RequestNext]_vars

\* the sandbox invoker with a worker that answers anything
SandboxNext ==
  \/ \E type \in IpcTypes : invoker(type)
  \/ \E type \in IpcTypes, eventId \in 1..MaxInvocations, ret \in Returns :
        WorkerPosts(type, eventId, ret)
  \/ DispatchMessage

SandboxSpec == Init /\ [][SandboxNext]_vars

\* the dialogs and the three file operations, with every path, store
\* answer, permission answer and file
FileNext ==
  \/ \E op \in FileOperations, path \in Paths : FileOp(op, path)
  \/ \E i \in DOMAIN fileOps, outcome \in StoreOutcomes : fetchStoredDirectoryHandle(i, outcome)
  \/ \E i \in DOMAIN fileOps, state \in PermissionAnswers : requestPermission(i, state)
  \/ \E i \in DOMAIN fileOps, state \in PermissionStates, found \in BOOLEAN :
        fileSystemAnswers(i, state, found)
  \/ \E kind \in DialogKinds : showDialog(kind)
  \/ \E d \in DOMAIN dialogs, pick \in DirNames \cup {NoPick} :
        showWritableDirectoryPicker(d, pick)
  \/ \E d \in DOMAIN dialogs, ok \in BOOLEAN : storeDirectoryHandle(d, ok)

FileSpec == Init /\ [][FileNext]_vars

\* any sequence of instance() calls
FactoryNext == \E host \in Hosts : instance(host)

FactorySpec == Init /\ [][FactoryNext]_vars

\* =========================================================================
\* properties
\* =========================================================================
WPending(c) == c \in DOMAIN wCall /\ wCall[c].result = "pending"
WSettled(c) == c \in DOMAIN wCall /\ wCall[c].result # "pending"
HPending(id) == id \in DOMAIN hCall /\ hCall[id].result = "pending"
HSettled(id) == id \in DOMAIN hCall /\ hCall[id].result # "pending"

\* a call whose id is (not) in its context's pending table
OnceOnly(k, table) ==
  /\ k.settles <= 1
  /\ k.removes <= 1
  /\ (k.id # NoId /\ k.id \in DOMAIN table) =>
        (k.result = "pending" /\ k.settles = 0 /\ k.removes = 0)
  /\ (k.id # NoId /\ k.id \notin DOMAIN table) =>
        (k.result # "pending" /\ k.settles = 1 /\ k.removes = 1)

\* C1: for every call of sendToMainThread and of sendInferenceToServiceWorker,
\* in every interleaving of its reply and its timer, the pending entry is
\* removed exactly once and one continuation is invoked exactly once; what
\* acts second leaves the settled call as it is.
C1_SettledExactlyOnce ==
  /\ [](/\ \A c \in DOMAIN wCall : OnceOnly(wCall[c], pendingRequests)
        /\ \A id \in DOMAIN hCall : OnceOnly(hCall[id], pendingInferenceRequests))
  /\ [][/\ \A c \in DOMAIN wCall : WSettled(c) => wCall'[c] = wCall[c]
        /\ \A id \in DOMAIN hCall : HSettled(id) => hCall'[id] = hCall[id]]_vars

\* both the reply and the timer of one call of W, and of one call of H, have
\* acted (the reply first in W, the timer first in H)
C1_Witness ==
  /\ \E c \in DOMAIN wCall :
        /\ wCall[c].result = "resolved"
        /\ \A t \in timers : t.id # wCall[c].id
  /\ \E id \in DOMAIN hCall :
        /\ hCall[id].error = ErrInferenceTimeout
        /\ id \in discarded

\* the step takes a reply off W's queue / an inference reply off H's queue
WReplyTaken == toW # <<>> /\ Head(toW).type = "response" /\ toW' = Tail(toW)
HReplyTaken == toH # <<>> /\ Head(toH).type = "inferenceResponse" /\ toH' = Tail(toH)

WCallOf(id) == CHOOSE c \in DOMAIN wCall : wCall[c].id = id

\* C4: a call whose entry is still in the table when its 60000 ms timer runs
\* is rejected with 'Request timeout' (W) or 'Inference request timeout' (H)
\* and its entry is removed; a reply that arrives for it afterwards settles
\* nothing.
C4_TimeoutRejects ==
  /\ [][/\ \A t \in timers :
             (t \notin timers' /\ t.ctx = "W" /\ t.id \in DOMAIN pendingRequests) =>
                /\ t.id \notin DOMAIN pendingRequests'
                /\ wCall'[WCallOf(t.id)].result = "rejected"
                /\ wCall'[WCallOf(t.id)].error = ErrRequestTimeout
        /\ \A t \in timers :
             (t \notin timers' /\ t.ctx = "H" /\ t.id \in DOMAIN pendingInferenceRequests) =>
                /\ t.id \notin DOMAIN pendingInferenceRequests'
                /\ hCall'[t.id].result = "rejected"
                /\ hCall'[t.id].error = ErrInferenceTimeout
        /\ (WReplyTaken /\ \E c \in DOMAIN wCall :
               wCall[c].id = Head(toW).id /\ wCall[c].error = ErrRequestTimeout) =>
              (wCall' = wCall /\ pendingRequests' = pendingRequests)
        /\ (HReplyTaken /\ Head(toH).id \in DOMAIN hCall
               /\ hCall[Head(toH).id].error = ErrInferenceTimeout) =>
              (hCall' = hCall /\ pendingInferenceRequests' = pendingInferenceRequests
                 /\ hHandlers' = hHandlers /\ toW' = toW)]_vars
  /\ [](/\ \A c \in DOMAIN wCall : wCall[c].error = ErrRequestTimeout =>
             /\ wCall[c].result = "rejected"
             /\ now >= wCall[c].deadline
             /\ wCall[c].id \notin DOMAIN pendingRequests
        /\ \A id \in DOMAIN hCall : hCall[id].error = ErrInferenceTimeout =>
             /\ hCall[id].result = "rejected"
             /\ now >= hCall[id].deadline
             /\ id \notin DOMAIN pendingInferenceRequests)

\* a call of W timed out and the reply that came afterwards was dropped
C4_Witness ==
  \E c \in DOMAIN wCall :
     /\ wCall[c].result = "rejected"
     /\ wCall[c].error = ErrRequestTimeout
     /\ wCall[c].id \in discarded

\* C5: a reply whose id has no entry in the receiving context's table changes
\* no table and settles no call, and the handler returns without raising
\* (H sends no failure reply for it).
C5_UnknownIdIgnored ==
  [][/\ (WReplyTaken /\ Head(toW).id \notin DOMAIN pendingRequests) =>
           /\ pendingRequests' = pendingRequests
           /\ wCall' = wCall
           /\ UNCHANGED <<toH, pendingInferenceRequests, hCall, hHandlers, cacheVars>>
     /\ (HReplyTaken /\ Head(toH).id \notin DOMAIN pendingInferenceRequests) =>
           /\ pendingInferenceRequests' = pendingInferenceRequests
           /\ hCall' = hCall
           /\ UNCHANGED <<toW, pendingRequests, wCall, hHandlers, runtimeLog>>]_vars

\* replies of all three kinds were taken and dropped by W: one whose id was
\* never issued, a second reply for a call already answered, and the late
\* reply of a call that had timed out
C5_Witness ==
  /\ NoId \in discarded
  /\ \E c \in DOMAIN wCall : wCall[c].result = "resolved" /\ wCall[c].id \in discarded
  /\ \E c \in DOMAIN wCall : wCall[c].error = ErrRequestTimeout /\ wCall[c].id \in discarded

\* C2: at every moment at most one InferenceSession.create is in flight for
\* one (model type, model path), however many calls ask for that session at
\* once.
C2_OneLoadInFlight ==
  \A l1, l2 \in DOMAIN loads :
     (loads[l1].mt = loads[l2].mt /\ loads[l1].path = loads[l2].path) => l1 = l2

\* all calls that obtained the session of one (model type, model path)
\* obtained the same instance
SameInstanceForAll ==
  \A o1, o2 \in obtained : (o1[2] = o2[2] /\ o1[3] = o2[3]) => o1[4] = o2[4]

\* C6: a session that is stored for a (model type, model path) stays stored
\* and is never replaced by another instance, and every call that obtains the
\* session of that fingerprint obtains the same instance.
C6_SessionNeverReplaced ==
  /\ [][\A mt \in ModelTypeSet : \A path \in DOMAIN sessions[mt] :
          /\ path \in DOMAIN sessions'[mt]
          /\ sessions'[mt][path] = sessions[mt][path]]_vars
  /\ []SameInstanceForAll

\* a call to initializeCore made while an earlier one was between its first
\* await and its end
LateCoreCalls == {c \in DOMAIN coreCalls : coreCalls[c].at \in {"bootstrap", "mount"}}

\* C7: initializeCore called while an earlier call is in progress rejects at
\* once with 'Initialization already in progress' and starts no second
\* bootstrap; the earlier call goes from not initialized through in progress to
\* initialized when bootstrap, dictionary mount and Initialize succeed.
C7_SecondCallRejected ==
  /\ [][(Len(coreCalls') = Len(coreCalls) + 1 /\ corePc \in {"bootstrap", "mount"}) =>
          /\ coreCalls'[Len(coreCalls')].result = "rejected"
          /\ coreCalls'[Len(coreCalls')].error = ErrAlreadyInProgress
          /\ bootstrapCount' = bootstrapCount
          /\ engine' = engine
          /\ corePc' = corePc
          /\ \A c \in DOMAIN coreCalls : coreCalls'[c] = coreCalls[c]]_vars
  /\ [](corePc \in {"bootstrap", "mount"} =>
          /\ engine.initializeInProgress
          /\ ~engine.isInitialized
          /\ Cardinality({c \in DOMAIN coreCalls : coreCalls[c].result = "running"}) = 1)
  /\ [](corePc = "done" =>
          /\ engine.isInitialized
          /\ ~engine.initializeInProgress
          /\ \E c \in DOMAIN coreCalls :
                coreCalls[c].result = "resolved" /\ coreCalls[c].at = "idle")
  /\ [][(corePc = "mount" /\ corePc' = "done") =>
          (engine'.isInitialized /\ coreCalls'[RunningCore].result = "resolved")]_vars

\* a second call was rejected during the first one's bootstrap or mount, and
\* the first one ended initialized
C7_Witness ==
  /\ corePc = "done"
  /\ bootstrapCount = 1
  /\ \E c \in LateCoreCalls :
        coreCalls[c].result = "rejected" /\ coreCalls[c].error = ErrAlreadyInProgress

\* the step in which H's listener takes a call message of the given types
HCallTaken(types) ==
  Listening /\ toH # <<>> /\ Head(toH).type \in types /\ toH' = Tail(toH)

\* the step in which the browser dispatches a call message of the given types
\* to H's page, whether or not a listener hears it
HCallDispatched(types) == toH # <<>> /\ Head(toH).type \in types /\ toH' = Tail(toH)

\* C8: when the runtime bootstrap or the dictionary mount fails, the
\* in-progress state is cleared: initializeInProgress is false again, and the
\* next 'initialize' message starts a fresh attempt instead of being handed
\* the failed one.
C8_FailureClearsInProgress ==
  /\ []((corePc = "failed" /\ \E c \in DOMAIN coreCalls :
            coreCalls[c].error \in {ErrBootstrap, ErrMount}) =>
          ~engine.initializeInProgress)
  /\ [][(initPc = "failed" /\ initError \in {ErrBootstrap, ErrMount}
           /\ HCallTaken({"initialize"})) =>
          (initPc' = "fetch" /\ initPromise' = "pending")]_vars

\* C9: a delegated operation that reaches H while the handshake is not Ready
\* is answered at once with a failure reply carrying a not-initialized error,
\* no handler stays behind for it, and the runtime is never invoked before
\* bootstrap and dictionary mount have completed.
C9_NotReadyFailsFast ==
  /\ [][(HCallTaken(OpTypes) /\ ~engine.isInitialized) =>
          /\ toW' = Append(toW, toW'[Len(toW')])
          /\ toW'[Len(toW')].type = "response"
          /\ toW'[Len(toW')].id = Head(toH).id
          /\ ~toW'[Len(toW')].success
          /\ toW'[Len(toW')].error \in {ErrEngineNotInitialized, ErrCoreNotInitialized}
          /\ hHandlers' = hHandlers
          /\ runtimeLog' = runtimeLog]_vars
  /\ [](\A r \in runtimeLog : r.ready /\ r.corePc = "done")

\* C10: a delegated operation issued by sendToMainThread before the handshake
\* is Ready is rejected at once with a not-initialized error and posts no
\* message to H.
C10_NotReadyNoPost ==
  /\ [][(Len(wCall') = Len(wCall) + 1 /\ wCall'[Len(wCall')].type \in OpTypes
           /\ HasClient /\ ~isInitialized) =>
          /\ toH' = toH
          /\ wCall'[Len(wCall')].result = "rejected"
          /\ wCall'[Len(wCall')].error \in {ErrEngineNotInitialized, ErrCoreNotInitialized}]_vars
  /\ [](\A c \in DOMAIN wCall : (wCall[c].type \in OpTypes /\ ~wCall[c].ready) =>
          wCall[c].posts = 0)

\* the message of call c of W reaches H's listener: it is still queued for a
\* page that has the listener, or its handler runs in H, or the reply is on
\* its way to W
Heard(c) ==
  /\ c \in DOMAIN wCall
  /\ \/ Listening /\ \E i \in DOMAIN toH :
           toH[i].type # "inferenceResponse" /\ toH[i].id = wCall[c].id
     \/ wCall[c].id \in DOMAIN hHandlers
     \/ \E i \in DOMAIN toW : toW[i].type = "response" /\ toW[i].id = wCall[c].id

\* the nested calls of H that are settled in this step
NestedSettled ==
  {id \in DOMAIN hCall : hCall[id].result = "pending" /\ hCall'[id].result # "pending"}

RepliesTo(q, type, id) == {i \in DOMAIN q : q[i].type = type /\ q[i].id = id}

\* the nested calls issued while H handled the call message with this id
NestedOf(id) == {k \in DOMAIN hCall : hCall[k].owner = id}

\* C11: H sends the reply to a call message only after every nested inference
\* call issued while handling it is settled; a call of W is resolved only
\* when all those nested calls are settled, so the results of two nested
\* calls both reach the runtime before the synthesis resolves in W.
C11_ReplyAfterNested ==
  /\ [][\A h \in DOMAIN hHandlers : h \notin DOMAIN hHandlers' =>
          /\ \A k \in NestedOf(h) : hCall'[k].result # "pending"
          /\ RepliesTo(toW, "response", h) = {}
          /\ Cardinality(RepliesTo(toW', "response", h)) = 1]_vars
  /\ [](\A i \in DOMAIN toW : toW[i].type = "response" =>
          \A k \in NestedOf(toW[i].id) : hCall[k].result # "pending")
  /\ [](\A c \in DOMAIN wCall : wCall[c].result = "resolved" =>
          \A k \in NestedOf(wCall[c].id) : hCall[k].result # "pending")

\* a synthesis resolved in W after two nested calls of its handler were both
\* answered by W with their own results
C11_Witness ==
  \E c \in DOMAIN wCall :
     /\ wCall[c].type = "synthesis"
     /\ wCall[c].result = "resolved"
     /\ Cardinality(NestedOf(wCall[c].id)) = 2
     /\ \A k \in NestedOf(wCall[c].id) : hCall[k].result = "resolved" /\ hCall[k].data = k

\* a reply message is a success with the result or a failure with the error
WellFormedReply(m) == IF m.success THEN m.error = "" ELSE m.error # ""

\* C12: for every call message a context receives (an operation request
\* dispatched to H, an inference request taken by W) it posts exactly one
\* reply with the same id when the handler settles, a success with the result
\* or a failure with the error message: the reply is posted by the step that
\* ends the handler and by no other step, every handler ends, and no call
\* message is left without a reply.
C12_ExactlyOneReply ==
  /\ [][/\ HCallDispatched(MessageTypes) =>
             /\ Head(toH).id \notin DOMAIN hHandlers
             /\ RepliesTo(toW, "response", Head(toH).id) = {}
             /\ Cardinality(RepliesTo(toW', "response", Head(toH).id))
                  = IF Head(toH).id \in DOMAIN hHandlers' THEN 0 ELSE 1
        /\ \A h \in DOMAIN hHandlers : h \notin DOMAIN hHandlers' =>
             /\ RepliesTo(toW, "response", h) = {}
             /\ Cardinality(RepliesTo(toW', "response", h)) = 1
        /\ \A i \in DOMAIN toW' : (toW'[i].type = "response" /\ i > Len(toW)) =>
             /\ WellFormedReply(toW'[i])
             /\ \/ toW'[i].id \in DOMAIN hHandlers /\ toW'[i].id \notin DOMAIN hHandlers'
                \/ HCallDispatched(MessageTypes) /\ toW'[i].id = Head(toH).id]_vars
  /\ [][/\ (toW # <<>> /\ Head(toW).type = "inference" /\ toW' = Tail(toW)) =>
             /\ Head(toW).id \notin DOMAIN tasks
             /\ RepliesTo(toH, "inferenceResponse", Head(toW).id) = {}
             /\ Cardinality(RepliesTo(toH', "inferenceResponse", Head(toW).id))
                  = IF Head(toW).id \in DOMAIN tasks' THEN 0 ELSE 1
        /\ \A t \in DOMAIN tasks : (tasks[t].reply # NoId /\ t \notin DOMAIN tasks') =>
             /\ RepliesTo(toH, "inferenceResponse", t) = {}
             /\ Cardinality(RepliesTo(toH', "inferenceResponse", t)) = 1
        /\ \A i \in DOMAIN toH' : (toH'[i].type = "inferenceResponse" /\ i > Len(toH)) =>
             /\ WellFormedReply(toH'[i])
             /\ \/ toH'[i].id \in DOMAIN tasks /\ toH'[i].id \notin DOMAIN tasks'
                \/ toW # <<>> /\ Head(toW).type = "inference" /\ toH'[i].id = Head(toW).id]_vars
  /\ \A id \in 1..(MaxWCalls + MaxHCalls) :
        /\ (id \in DOMAIN hHandlers) ~> (id \notin DOMAIN hHandlers)
        /\ (id \in DOMAIN tasks) ~> (id \notin DOMAIN tasks)

\* H answered one operation request with a success reply and W answered an
\* inference request with a failure reply whose error message the handler of
\* H passed on in its own failure reply
C12_Witness ==
  /\ \E c \in DOMAIN wCall : wCall[c].result = "resolved" /\ wCall[c].data = wCall[c].id
  /\ \E c \in DOMAIN wCall : \E k \in NestedOf(wCall[c].id) :
        /\ hCall[k].result = "rejected"
        /\ hCall[k].error \in {ErrLoad, ErrRun}
        /\ wCall[c].result = "rejected"
        /\ wCall[c].error = hCall[k].error

\* C13: a call message naming an operation the receiver has no handler for
\* (a message type unknown to H, an inference type unknown to W) is answered
\* with a failure reply carrying an unknown-operation error, which the caller
\* observes as a rejection of its call.
C13_UnknownOperationRejected ==
  /\ \A i \in DOMAIN toW :
        (toW[i].type = "response" /\ \E c \in DOMAIN wCall :
            wCall[c].id = toW[i].id /\ wCall[c].type \notin MessageTypes) =>
           /\ ~toW[i].success
           /\ toW[i].error = WarnUnknownMessageType
  /\ \A i \in DOMAIN toH :
        (toH[i].type = "inferenceResponse" /\ \E k \in DOMAIN hCall :
            hCall[k].id = toH[i].id /\ hCall[k].type \notin InferenceTypes) =>
           /\ ~toH[i].success
           /\ toH[i].error = ErrUnknownInferenceType
  /\ \A c \in DOMAIN wCall :
        wCall[c].type \notin MessageTypes => wCall[c].result # "resolved"
  /\ \A k \in DOMAIN hCall :
        hCall[k].type \notin InferenceTypes =>
           /\ hCall[k].result # "resolved"
           /\ hCall[k].result = "rejected" =>
                hCall[k].error \in {ErrUnknownInferenceType, ErrInferenceTimeout}

\* the load lid ends in this step and stores a session / stores none
LoadSucceeds(lid) ==
  /\ lid \in DOMAIN loads
  /\ lid \notin DOMAIN loads'
  /\ loads[lid].path \in DOMAIN sessions'[loads[lid].mt]
  /\ sessions'[loads[lid].mt][loads[lid].path] = lid

LoadFails(lid) ==
  /\ lid \in DOMAIN loads
  /\ lid \notin DOMAIN loads'
  /\ ~LoadSucceeds(lid)

WaitingFor(lid) == {t \in DOMAIN tasks : lid \in tasks[t].waits}

\* C14: when a model load fails, every call waiting for it is rejected with
\* the load error, and the fingerprint is unloaded again: no session is
\* stored for it and no in-flight marker is left, so that the next getSession
\* or initializeSession for it starts a new load.
C14_FailedLoadUnloads ==
  [][\A lid \in DOMAIN loads : LoadFails(lid) =>
        /\ \A t \in WaitingFor(lid) :
              /\ t \notin DOMAIN tasks'
              /\ t \in DOMAIN taskLog'
              /\ ~taskLog'[t].ok
              /\ taskLog'[t].error = ErrLoad
        /\ loads[lid].path \notin DOMAIN sessions'[loads[lid].mt]
        /\ <<loads[lid].mt, loads[lid].path>> \notin DOMAIN initializingModels'
        /\ \A speakerId \in Speakers, mt \in ModelTypeSet : mt = loads[lid].mt =>
              /\ (getSession(mt, speakerId))' = "create"
              /\ (initializeSessionStep(mt, speakerId))' = "create"]_vars

\* the initializeSession calls that start / end in this step
WarmUpStarts(t) == t \notin DOMAIN tasks /\ t \notin DOMAIN taskLog
                   /\ \/ t \in DOMAIN tasks' /\ tasks'[t].kind = "initializeSession"
                      \/ t \in DOMAIN taskLog' /\ taskLog'[t].kind = "initializeSession"
WarmUpEnds(t) == t \notin DOMAIN taskLog /\ t \in DOMAIN taskLog'
                 /\ taskLog'[t].kind = "initializeSession"
StartedLoads == {lid \in DOMAIN loads' : lid \notin DOMAIN loads}

\* C15: initializeSession starts, in one turn, a load for each of the four
\* models that is neither cached nor being warmed up, and waits for all four;
\* it resolves only when a session is stored for each of the four models and
\* rejects with the load error as soon as one load it waits for fails. The
\* other loads go on: a model whose session is stored stays stored and no
\* load of it is started again, before or after the rejection.
C15_WarmUpAllOrReject ==
  /\ [][\A t \in 1..MaxTasks : WarmUpStarts(t) =>
          \A mt \in ModelTypeSet, speakerId \in Speakers :
             \/ HasSession(mt, speakerId)
             \/ /\ t \in DOMAIN tasks'
                /\ initKey(mt, speakerId) \in DOMAIN initializingModels'
                /\ initializingModels'[initKey(mt, speakerId)] \in tasks'[t].waits
                /\ initKey(mt, speakerId) \notin DOMAIN initializingModels =>
                     /\ initializingModels'[initKey(mt, speakerId)] \in StartedLoads
                     /\ loads'[initializingModels'[initKey(mt, speakerId)]].mt = mt]_vars
  /\ [][\A t \in 1..MaxTasks : WarmUpEnds(t) =>
          IF taskLog'[t].ok
          THEN \A speakerId \in Speakers : (sessionInitialized(speakerId))'
          ELSE /\ taskLog'[t].error = ErrLoad
               /\ \E lid \in DOMAIN loads : LoadFails(lid) /\ t \in WaitingFor(lid)]_vars
  /\ [][\A lid \in DOMAIN loads : \A t \in WaitingFor(lid) :
          (LoadFails(lid) /\ tasks[t].kind = "initializeSession") =>
             t \in DOMAIN taskLog' /\ ~taskLog'[t].ok]_vars
  /\ [][\A mt \in ModelTypeSet : \A path \in DOMAIN sessions[mt] :
          /\ path \in DOMAIN sessions'[mt]
          /\ \A lid \in StartedLoads : ~(loads'[lid].mt = mt /\ loads'[lid].path = path)]_vars

\* a warm-up on an empty cache started four loads, was rejected when one of
\* them failed, and the other three stored their sessions afterwards
C15_Witness ==
  /\ \E t \in DOMAIN taskLog :
        taskLog[t].kind = "initializeSession" /\ ~taskLog[t].ok
  /\ nextLoad = 5
  /\ loads = <<>>
  /\ Cardinality({mt \in ModelTypeSet : sessions[mt] # <<>>}) = 3
  /\ \A t \in DOMAIN taskLog : taskLog[t].kind = "initializeSession"

\* the sessionInitialized answers given in this step
Answered == {t \in DOMAIN taskLog' : t \notin DOMAIN taskLog
                                     /\ taskLog'[t].kind = "sessionInitialized"}

\* C16: sessionInitialized(speaker) answers true exactly when a session is
\* stored for each of the speaker's four (model type, model path), and it
\* starts no load and changes nothing in the cache.
C16_QueryIsPure ==
  [][\A t \in Answered :
        /\ taskLog'[t].ok <=>
             \A speakerId \in Speakers :
                /\ modelPaths(speakerId)["yukarinS"] \in DOMAIN sessions["yukarinS"]
                /\ modelPaths(speakerId)["yukarinSa"] \in DOMAIN sessions["yukarinSa"]
                /\ modelPaths(speakerId)["spectrogram"] \in DOMAIN sessions["spectrogram"]
                /\ modelPaths(speakerId)["vocoder"] \in DOMAIN sessions["vocoder"]
        /\ UNCHANGED <<sessions, initializingModels, loads, nextLoad, tasks, obtained>>]_vars

\* the question was answered with true: a warm-up had stored the four
\* sessions before
C16_Witness ==
  \E t \in DOMAIN taskLog :
     /\ taskLog[t].kind = "sessionInitialized"
     /\ taskLog[t].ok
     /\ \A mt \in ModelTypeSet : sessions[mt] # <<>>

\* C17: every call between the two contexts settles, and no later than its
\* deadline of 60 seconds, whether or not the peer ever replies: a call is
\* pending only up to its deadline, and again and again all calls made so
\* far are settled (a settled call stays settled), although no step of the
\* peer is guaranteed to happen. (Calls whose deadline lies beyond the last
\* instant of the bounded clock are left out of the second part.)
C17_SettlesByDeadline ==
  /\ [](\A c \in DOMAIN wCall : wCall[c].result = "pending" =>
           /\ now <= wCall[c].deadline
           /\ wCall[c].deadline <= now + TimeoutMs)
  /\ [](\A k \in DOMAIN hCall : hCall[k].result = "pending" =>
           /\ now <= hCall[k].deadline
           /\ hCall[k].deadline <= now + TimeoutMs)
  /\ []<>(/\ \A c \in DOMAIN wCall : wCall[c].deadline <= Horizon => WSettled(c)
          /\ \A id \in DOMAIN hCall : hCall[id].deadline <= Horizon => HSettled(id))

\* W never took the inference message of a nested call of H: the nested call
\* was rejected by its timer at its deadline, and the call of W that caused
\* it ended too, by its own timer or by the failure H passed on
C17_Witness ==
  \E k \in DOMAIN hCall :
     /\ hCall[k].error = ErrInferenceTimeout
     /\ now = hCall[k].deadline
     /\ \E i \in DOMAIN toW : toW[i].id = hCall[k].id /\ toW[i].type = "inference"
     /\ \E c \in DOMAIN wCall :
           /\ wCall[c].id = hCall[k].owner
           /\ wCall[c].error \in {ErrRequestTimeout, ErrInferenceTimeout}

\* the result a reply message gives the call it settles
SettledBy(call, m) ==
  /\ call.result = IF m.success THEN "resolved" ELSE "rejected"
  /\ m.success => call.data = m.data /\ call.error = ""
  /\ ~m.success => call.error = m.error

\* C18: with several calls pending in one context and the replies arriving
\* in any order, a reply settles the pending call whose id is the reply's id
\* and no other call; that call takes the reply's own success flag and its
\* payload (success) or error message (failure), and only its entry leaves
\* the pending table.
C18_ReplyMatchesById ==
  /\ [][(toW # <<>> /\ Head(toW).type = "response" /\ toW' = Tail(toW)) =>
          /\ pendingRequests' = Remove(pendingRequests, Head(toW).id)
          /\ \A c \in DOMAIN wCall :
                IF wCall[c].id = Head(toW).id /\ wCall[c].id \in DOMAIN pendingRequests
                THEN SettledBy(wCall'[c], Head(toW))
                ELSE wCall'[c] = wCall[c]]_vars
  /\ [][(toH # <<>> /\ Head(toH).type = "inferenceResponse" /\ toH' = Tail(toH)) =>
          /\ pendingInferenceRequests' = Remove(pendingInferenceRequests, Head(toH).id)
          /\ \A k \in DOMAIN hCall :
                IF hCall[k].id = Head(toH).id /\ k \in DOMAIN pendingInferenceRequests
                THEN SettledBy(hCall'[k], Head(toH))
                ELSE hCall'[k] = hCall[k]]_vars

\* in each context two calls were pending at once and the reply for the
\* later one came first: the later call is resolved with its own payload
\* while the earlier one is still pending
C18_Witness ==
  /\ \E c1, c2 \in DOMAIN wCall :
        /\ c1 < c2
        /\ wCall[c1].result = "pending"
        /\ wCall[c2].result = "resolved" /\ wCall[c2].data = wCall[c2].id
  /\ \E k1, k2 \in DOMAIN hCall :
        /\ k1 < k2
        /\ hCall[k1].result = "pending"
        /\ hCall[k2].result = "resolved" /\ hCall[k2].data = hCall[k2].id

\* the messages a step appends to a queue
Posted(q, qNext) ==
  IF Len(qNext) > Len(q) THEN {qNext[i] : i \in (Len(q) + 1)..Len(qNext)} ELSE {}
PostedCount(q, qNext) == IF Len(qNext) > Len(q) THEN Len(qNext) - Len(q) ELSE 0

\* the ids of the calls a context has made so far
WIds == {wCall[c].id : c \in DOMAIN wCall}
HIds == {hCall[k].id : k \in DOMAIN hCall}

\* C19: every invocation of sendToMainThread (with a window client) and of
\* sendInferenceToServiceWorker posts exactly one call message, with a new
\* id; no other step posts a call message, so nothing is sent again after a
\* timeout or a failure reply; a call that failed stays rejected with the
\* error of the timeout or of the reply.
C19_OnePostNoRetry ==
  /\ [][/\ Len(wCall') > Len(wCall) =>
             /\ Len(wCall') = Len(wCall) + 1
             /\ IF HasClient
                THEN /\ PostedCount(toH, toH') = 1
                     /\ \A m \in Posted(toH, toH') :
                           /\ m.id = wCall'[Len(wCall')].id
                           /\ m.type = wCall'[Len(wCall')].type
                           /\ m.id \notin WIds
                ELSE /\ toH' = toH
                     /\ wCall'[Len(wCall')].result = "rejected"
        /\ \A m \in Posted(toH, toH') :
             m.type # "inferenceResponse" => Len(wCall') > Len(wCall)
        /\ DOMAIN hCall' # DOMAIN hCall =>
             /\ Cardinality(DOMAIN hCall' \ DOMAIN hCall) = 1
             /\ PostedCount(toW, toW') = 1
             /\ \A m \in Posted(toW, toW') : \A k \in DOMAIN hCall' \ DOMAIN hCall :
                   /\ m.type = "inference"
                   /\ m.id = hCall'[k].id
                   /\ m.inferenceType = hCall'[k].type
                   /\ m.id \notin HIds
        /\ \A m \in Posted(toW, toW') :
             m.type # "response" => DOMAIN hCall' # DOMAIN hCall]_vars
  /\ [][/\ \A c \in DOMAIN wCall : wCall[c].result = "rejected" =>
             /\ wCall[c].error # ""
             /\ wCall'[c] = wCall[c]
        /\ \A k \in DOMAIN hCall : hCall[k].result = "rejected" =>
             /\ hCall[k].error # ""
             /\ hCall'[k] = hCall[k]]_vars

\* a delegated operation failed by timeout, another call in the other
\* direction failed by a failure reply, and each of the two was posted once:
\* no call message is in flight and no call is pending
C19_Witness ==
  /\ \E c \in DOMAIN wCall : wCall[c].type \in OpTypes /\ wCall[c].result = "rejected"
  /\ \E k \in DOMAIN hCall : hCall[k].result = "rejected" /\ hCall[k].error \in {ErrLoad, ErrRun}
  /\ toH = <<>>
  /\ toW = <<>>
  /\ \A c \in DOMAIN wCall : wCall[c].result # "pending"
  /\ hHandlers = <<>>

\* C20: once the handshake is Ready it stays Ready: the isInitialized flags of
\* H and of its engine never revert, the runtime bootstrap and the dictionary
\* mount never run again, and every later 'initialize' message (and every
\* later initializeCore call) is answered with success at once.
C20_ReadyIsTerminal ==
  /\ [][isInitialized => isInitialized']_vars
  /\ [][engine.isInitialized =>
          /\ engine'.isInitialized
          /\ ~engine'.initializeInProgress
          /\ bootstrapCount' = bootstrapCount
          /\ corePc' = corePc
          /\ engineCount' = engineCount]_vars
  /\ [][(isInitialized /\ HCallTaken({"initialize"})) =>
          /\ Cardinality(RepliesTo(toW', "response", Head(toH).id)) = 1
          /\ \A i \in RepliesTo(toW', "response", Head(toH).id) : toW'[i].success
          /\ hHandlers' = hHandlers
          /\ initPc' = initPc
          /\ coreCalls' = coreCalls]_vars
  /\ [][(engine.isInitialized /\ Len(coreCalls') > Len(coreCalls)) =>
          coreCalls'[Len(coreCalls')].result = "resolved"]_vars
  /\ [](isInitialized => engine.isInitialized /\ corePc = "done")

\* an 'initialize' call made when H was Ready was resolved, and bootstrap and
\* mount had run once
C20_Witness ==
  /\ isInitialized
  /\ bootstrapCount = 1
  /\ engineCount = 1
  /\ \E c \in DOMAIN wCall :
        /\ wCall[c].type = "initialize"
        /\ wCall[c].ready
        /\ wCall[c].result = "resolved"

\* C21: an 'initialize' message that H takes while an earlier one is still
\* Initializing is answered at once with a failure reply carrying the
\* already-in-progress error; no handler stays behind waiting for the first
\* attempt's promise.
C21_ConcurrentInitializeRejected ==
  [][(HCallTaken({"initialize"}) /\ initPromise = "pending") =>
        /\ Cardinality(RepliesTo(toW', "response", Head(toH).id)) = 1
        /\ \A i \in RepliesTo(toW', "response", Head(toH).id) :
              /\ ~toW'[i].success
              /\ toW'[i].error = ErrAlreadyInProgress
        /\ Head(toH).id \notin DOMAIN hHandlers']_vars

\* C22: when the peer's handler throws, the caller's call is rejected with
\* an error whose message is the message of the error thrown on the peer
\* (which the failure reply carries), for every message, the empty one
\* included.
C22_RemoteMessageVerbatim ==
  /\ [][(toW # <<>> /\ Head(toW).type = "response" /\ ~Head(toW).success
           /\ toW' = Tail(toW)) =>
          \A c \in DOMAIN wCall :
             (wCall[c].id = Head(toW).id /\ wCall[c].result = "pending") =>
                /\ wCall'[c].result = "rejected"
                /\ wCall'[c].error = Head(toW).error]_vars
  /\ [][(toH # <<>> /\ Head(toH).type = "inferenceResponse" /\ ~Head(toH).success
           /\ toH' = Tail(toH)) =>
          \A k \in DOMAIN hCall :
             (hCall[k].id = Head(toH).id /\ hCall[k].result = "pending") =>
                /\ hCall'[k].result = "rejected"
                /\ hCall'[k].error = Head(toH).error]_vars

\* C23: when the delegated call of a route of W is rejected - by its timeout,
\* by a failure reply or because no window client exists - the HTTP request
\* is answered with the structured 500 'InternalServerError' response, and no
\* request stays unanswered: again and again every request made so far has
\* its response. (Requests whose deadline lies beyond the last instant of the
\* bounded clock are left out of the second part.)
C23_RejectionAnswered500 ==
  /\ [](\A c \in DOMAIN wCall : wCall[c].result = "rejected" =>
          /\ RouteResponse(wCall[c]).status = 500
          /\ RouteResponse(wCall[c]).type = "InternalServerError"
          /\ RouteResponse(wCall[c]).msg = "Internal Server Error")
  /\ []<>(\A c \in DOMAIN wCall : wCall[c].deadline <= Horizon =>
             RouteResponse(wCall[c]) # NoResponse)

\* one request was refused for want of a window client and another ran into
\* its timeout; both have their 500 response
C23_Witness ==
  /\ \E c \in DOMAIN wCall :
        wCall[c].error = ErrNoClient /\ RouteResponse(wCall[c]).status = 500
  /\ \E c \in DOMAIN wCall :
        wCall[c].error = ErrRequestTimeout /\ RouteResponse(wCall[c]).status = 500

\* C24: when only initializeSession calls run (for any speakers, any number
\* at once), at most one InferenceSession.create is in flight for a model at
\* any moment; a call that starts while loads are in flight starts no load
\* for their models and waits for every one of them; a load is started only
\* for a model that is neither stored nor loading; when a load succeeds every
\* call that was waiting only for it resolves; and as long as no load has
\* failed, no more than one create per model has ever been made.
C24_OneLoadPerModel ==
  /\ [](\A l1, l2 \in DOMAIN loads :
          (loads[l1].mt = loads[l2].mt /\ loads[l1].path = loads[l2].path) => l1 = l2)
  /\ [][\A t \in 1..(MaxTasks + 1) : WarmUpStarts(t) =>
          /\ \A lid \in DOMAIN loads : t \in DOMAIN tasks' /\ lid \in tasks'[t].waits
          /\ \A lid \in StartedLoads :
                /\ \A old \in DOMAIN loads :
                      ~(loads[old].mt = loads'[lid].mt /\ loads[old].path = loads'[lid].path)
                /\ loads'[lid].path \notin DOMAIN sessions[loads'[lid].mt]]_vars
  /\ [][\A lid \in DOMAIN loads : LoadSucceeds(lid) =>
          \A t \in WaitingFor(lid) :
             tasks[t].waits = {lid} => t \in DOMAIN taskLog' /\ taskLog'[t].ok]_vars
  /\ []((\A t \in DOMAIN taskLog : taskLog[t].ok) =>
          /\ nextLoad - 1 <= Cardinality(ModelTypeSet)
          /\ \A lid \in 1..(nextLoad - 1) :
                \/ lid \in DOMAIN loads
                \/ \E mt \in ModelTypeSet : \E path \in DOMAIN sessions[mt] :
                      sessions[mt][path] = lid)

\* two warm-ups are in flight at once and wait for the same loads, one load
\* per model having been started in all
C24_Witness ==
  /\ Cardinality(DOMAIN tasks) >= 2
  /\ \A t \in DOMAIN tasks :
        /\ tasks[t].kind = "initializeSession"
        /\ tasks[t].waits = DOMAIN loads
  /\ loads # <<>>
  /\ nextLoad = 5
  /\ taskLog = <<>>

\* the steps of the running initializeCore body, in the order of the code
CoreOrder ==
  {<<"idle", "bootstrap">>, <<"bootstrap", "mount">>, <<"bootstrap", "failed">>,
   <<"mount", "done">>, <<"mount", "failed">>}

\* the success replies to 'initialize' requests that H posts in this step
InitializeSuccesses ==
  {m \in Posted(toW, toW') :
     /\ m.type = "response"
     /\ m.success
     /\ \E c \in DOMAIN wCall : wCall[c].id = m.id /\ wCall[c].type = "initialize"}

\* C25: H posts a success reply to an 'initialize' request only when the
\* runtime bootstrap has returned, the dictionary is mounted and the synthesis
\* exports are initialised; these steps run in that order, the exported
\* functions are bound only when the bootstrap has returned, and
\* engine.isInitialized turns true only in the step that ends the last of them.
C25_SuccessAfterFullInit ==
  /\ [][\A m \in InitializeSuccesses :
          /\ bootstrapCount' = 1
          /\ engine'.dotnetExportedFunctions
          /\ corePc' = "done"
          /\ engine'.isInitialized
          /\ isInitialized']_vars
  /\ [][corePc' # corePc => <<corePc, corePc'>> \in CoreOrder]_vars
  /\ [][(engine'.isInitialized /\ ~engine.isInitialized) =>
          /\ corePc = "mount"
          /\ corePc' = "done"
          /\ engine.dotnetExportedFunctions]_vars
  /\ [](engine.dotnetExportedFunctions => corePc \in {"mount", "done", "failed"})
  /\ [](engine.isInitialized => corePc = "done")

\* an 'initialize' request made before H was ready was resolved, after the
\* bootstrap and the mount had run
C25_Witness ==
  /\ \E c \in DOMAIN wCall :
        /\ wCall[c].type = "initialize"
        /\ ~wCall[c].ready
        /\ wCall[c].result = "resolved"
  /\ corePc = "done"
  /\ engine.isInitialized
  /\ bootstrapCount = 1

\* C26: whatever 'initialize' requests H receives (one after the other or
\* at once, succeeding or failing), it constructs at most one MainThreadEngine
\* and invokes the runtime bootstrap at most once: the engine is constructed
\* only by the 'initialize' message that finds initPromise unset, and the
\* bootstrap starts only for that engine's first initializeCore call.
C26_OneEngineOneBootstrap ==
  /\ [](engineCount <= 1 /\ bootstrapCount <= 1)
  /\ [][engineCount' # engineCount =>
          /\ engineCount = 0
          /\ engineCount' = 1
          /\ initPromise = "null"
          /\ HCallTaken({"initialize"})]_vars
  /\ [][bootstrapCount' # bootstrapCount =>
          /\ bootstrapCount = 0
          /\ bootstrapCount' = 1
          /\ engineCount = 1
          /\ coreCalls = <<>>]_vars
  /\ [](initPromise = "null" <=> engineCount = 0)

\* two 'initialize' requests were both rejected, the second one made after
\* the first attempt had failed in the bootstrap: one engine, one bootstrap
C26_Witness ==
  /\ engineCount = 1
  /\ bootstrapCount = 1
  /\ initPromise = "rejected"
  /\ initError = ErrBootstrap
  /\ Cardinality({c \in DOMAIN wCall :
        /\ wCall[c].type = "initialize"
        /\ wCall[c].result = "rejected"
        /\ wCall[c].error = ErrBootstrap}) = 2
  /\ toH = <<>>
  /\ toW = <<>>

\* C27: the model paths, and with them the cache keys, are the same for
\* every speaker id: at every moment sessionInitialized gives the same value
\* for any two speakers, every answer of the query route is the value for
\* every speaker, and when a warm-up (for whichever speaker) resolves, every
\* speaker reports initialized.
C27_SpeakerIndependent ==
  /\ [](\A s1, s2 \in Speakers :
          /\ modelPaths(s1) = modelPaths(s2)
          /\ \A mt \in ModelTypeSet : initKey(mt, s1) = initKey(mt, s2)
          /\ sessionInitialized(s1) = sessionInitialized(s2))
  /\ [][\A t \in Answered : \A speakerId \in Speakers :
          taskLog'[t].ok = sessionInitialized(speakerId)]_vars
  /\ [][\A t \in 1..(MaxTasks + 1) : (WarmUpEnds(t) /\ taskLog'[t].ok) =>
          \A speakerId \in Speakers : (sessionInitialized(speakerId))']_vars

\* one warm-up resolved after exactly four loads and the query that followed
\* it was answered with true
C27_Witness ==
  /\ \E t \in DOMAIN taskLog : taskLog[t].kind = "initializeSession" /\ taskLog[t].ok
  /\ \E t \in DOMAIN taskLog : taskLog[t].kind = "sessionInitialized" /\ taskLog[t].ok
  /\ nextLoad = 5
  /\ \A speakerId \in Speakers : sessionInitialized(speakerId)

\* C28: W posts the reply to an inference request to the window that sent
\* the request. Every inference request is sent by H's window (MainWindow), so
\* the client looked up for the reply of a request is MainWindow, and when
\* the call that serves a request ends, its reply is in the queue to H.
C28_ReplyToSender ==
  /\ [](\A t \in DOMAIN tasks : tasks[t].reply # NoId => tasks[t].reply = MainWindow)
  /\ [][\A t \in DOMAIN tasks : (tasks[t].reply # NoId /\ t \notin DOMAIN tasks') =>
          Cardinality(RepliesTo(toH', "inferenceResponse", t)) = 1]_vars

\* the ids of the calls of each context that are issued and not settled
PendingW == {wCall[c].id : c \in {k \in DOMAIN wCall : wCall[k].result = "pending"}}
PendingH == {hCall[k].id : k \in {j \in DOMAIN hCall : hCall[j].result = "pending"}}

\* the timer of the call id of context ctx runs in this step
TimerRuns(ctx, id) ==
  \E t \in timers : t \notin timers' /\ t.ctx = ctx /\ t.id = id /\ t.deadline <= now

\* C29: in W and in H the pending table holds, at every moment, exactly the
\* ids of the calls issued and not yet settled; an id enters the table only
\* in the step that issues its call and leaves it only in the step that takes
\* its reply or runs its timer; when every call has settled both tables are
\* empty.
C29_PendingTableExact ==
  /\ [](/\ DOMAIN pendingRequests = PendingW
        /\ DOMAIN pendingInferenceRequests = PendingH)
  /\ [][/\ \A id \in DOMAIN pendingRequests' \ DOMAIN pendingRequests :
             /\ Len(wCall') = Len(wCall) + 1
             /\ wCall'[Len(wCall')].id = id
             /\ id \notin WIds
        /\ \A id \in DOMAIN pendingInferenceRequests' \ DOMAIN pendingInferenceRequests :
             /\ id \notin HIds
             /\ \E k \in DOMAIN hCall' \ DOMAIN hCall : hCall'[k].id = id]_vars
  /\ [][/\ \A id \in DOMAIN pendingRequests \ DOMAIN pendingRequests' :
             \/ WReplyTaken /\ Head(toW).id = id
             \/ TimerRuns("W", id)
        /\ \A id \in DOMAIN pendingInferenceRequests \ DOMAIN pendingInferenceRequests' :
             \/ HReplyTaken /\ Head(toH).id = id
             \/ TimerRuns("H", id)]_vars
  /\ []((PendingW = {} /\ PendingH = {}) =>
          (pendingRequests = <<>> /\ pendingInferenceRequests = <<>>))

\* calls of both contexts were issued and all have settled, one of W by its
\* reply and one of H by its timer, and both tables are empty
C29_Witness ==
  /\ \E c \in DOMAIN wCall : wCall[c].result = "resolved"
  /\ \E k \in DOMAIN hCall : hCall[k].result = "rejected" /\ hCall[k].error = ErrInferenceTimeout
  /\ PendingW = {}
  /\ PendingH = {}
  /\ pendingRequests = <<>>
  /\ pendingInferenceRequests = <<>>

\* the loads in flight that initializeSession started
WarmUpLoads == {lid \in DOMAIN loads : loads[lid].by = "init"}

\* C30: initializingModels holds a key exactly while a load that
\* initializeSession started for that (model type, model path) is in flight,
\* and the key names that load: the key is there from the step that starts
\* the load, it is gone after the step in which the load settles, whether the
\* load succeeds or fails, and when no warm-up load is in flight the table is
\* empty.
C30_KeyWhileLoading ==
  /\ [](/\ \A k \in DOMAIN initializingModels :
             /\ initializingModels[k] \in WarmUpLoads
             /\ k = <<loads[initializingModels[k]].mt, loads[initializingModels[k]].path>>
        /\ \A lid \in WarmUpLoads :
             /\ <<loads[lid].mt, loads[lid].path>> \in DOMAIN initializingModels
             /\ initializingModels[<<loads[lid].mt, loads[lid].path>>] = lid)
  /\ [][\A lid \in StartedLoads : loads'[lid].by = "init" =>
          /\ <<loads'[lid].mt, loads'[lid].path>> \notin DOMAIN initializingModels
          /\ <<loads'[lid].mt, loads'[lid].path>> \in DOMAIN initializingModels']_vars
  /\ [][\A lid \in WarmUpLoads : (LoadSucceeds(lid) \/ LoadFails(lid)) =>
          <<loads[lid].mt, loads[lid].path>> \notin DOMAIN initializingModels']_vars
  /\ [][\A k \in DOMAIN initializingModels : k \notin DOMAIN initializingModels' =>
          \E lid \in WarmUpLoads :
             /\ initializingModels[k] = lid
             /\ lid \notin DOMAIN loads']_vars
  /\ [](WarmUpLoads = {} => initializingModels = <<>>)

\* a warm-up started four loads, two of them failed and two stored their
\* sessions, and no key is left
C30_Witness ==
  /\ initializingModels = <<>>
  /\ loads = <<>>
  /\ nextLoad = 5
  /\ \E t \in DOMAIN taskLog : taskLog[t].kind = "initializeSession" /\ ~taskLog[t].ok
  /\ \A t \in DOMAIN taskLog : taskLog[t].kind = "initializeSession"
  /\ Cardinality({mt \in ModelTypeSet : sessions[mt] # <<>>}) = 2

\* the sendToMainThread calls made in this step
NewWCalls == {c \in DOMAIN wCall' : c \notin DOMAIN wCall}

\* C31: a sendToMainThread call made when the ServiceWorker has no window
\* client is rejected at once with 'No client available to handle request';
\* it adds no pending entry, arms no timer, posts no message and draws no id.
C31_NoClientRejects ==
  [][\A c \in NewWCalls : clients = <<>> =>
        /\ wCall'[c].result = "rejected"
        /\ wCall'[c].error = ErrNoClient
        /\ wCall'[c].id = NoId
        /\ pendingRequests' = pendingRequests
        /\ timers' = timers
        /\ toH' = toH
        /\ nextId' = nextId]_vars

\* a call made without a window client was rejected with the no-client
\* error, and nothing is pending, armed or in flight
C31_Witness ==
  /\ clients = <<>>
  /\ \E c \in DOMAIN wCall :
        /\ wCall[c].result = "rejected"
        /\ wCall[c].error = ErrNoClient
        /\ wCall[c].posts = 0
  /\ pendingRequests = <<>>
  /\ timers = {}
  /\ toH = <<>>

\* the call of W that the handler owning the nested call k is serving
OuterOf(k) == {c \in DOMAIN wCall : wCall[c].id = hCall[k].owner}

\* C32: the deadline of every nested inference call that H issues while it
\* handles a call of W is not earlier than the deadline of that call of W,
\* and it is 60 seconds after an instant at which the outer call had already
\* been issued.
C32_NestedDeadlineNotEarlier ==
  /\ [](\A k \in DOMAIN hCall :
          /\ OuterOf(k) # {}
          /\ \A c \in OuterOf(k) : hCall[k].deadline >= wCall[c].deadline)
  /\ [][\A k \in DOMAIN hCall' : k \notin DOMAIN hCall =>
          /\ hCall'[k].deadline = now + TimeoutMs
          /\ \E t \in timers' : t.ctx = "H" /\ t.id = hCall'[k].id
                                  /\ t.deadline = hCall'[k].deadline
          /\ \A c \in DOMAIN wCall : wCall[c].id = hCall'[k].owner =>
                wCall[c].deadline - TimeoutMs <= now]_vars

\* a nested call was issued after the clock had moved on since its outer
\* call: its deadline is later than the outer one
C32_Witness ==
  \E k \in DOMAIN hCall : \E c \in OuterOf(k) :
     /\ hCall[k].deadline > wCall[c].deadline
     /\ wCall[c].deadline = TimeoutMs

\* C33: in every reachable state of the engine, isInitialized and
\* initializeInProgress are not both true, and isInitialized is true only if
\* the functions exported by the runtime are stored.
C33_FlagsConsistent ==
  /\ ~(engine.isInitialized /\ engine.initializeInProgress)
  /\ engine.isInitialized => engine.dotnetExportedFunctions

\* the engine is initialized after a call made during the initialization was
\* rejected: both flags have been true, one after the other
C33_Witness ==
  /\ engine.isInitialized
  /\ ~engine.initializeInProgress
  /\ engine.dotnetExportedFunctions
  /\ \E c \in DOMAIN coreCalls :
        coreCalls[c].result = "rejected" /\ coreCalls[c].error = ErrAlreadyInProgress

\* the parameter texts that are the text of a number
Numerals == {"1", " 1 ", "0x10"}

\* the requests that arrive in this step
NewRequests == {i \in DOMAIN requests' : i \notin DOMAIN requests}

\* C34: a request to a delegating route whose speaker parameter is missing
\* or is not the text of a number, or whose required text parameter is
\* missing, is answered with status 422, and W posts no message to H, adds no
\* pending entry, arms no timer and makes no call.
C34_InvalidRequest422 ==
  [][\A i \in NewRequests :
        (\/ NeedsText(requests'[i].route) /\ requests'[i].text = Absent
         \/ requests'[i].speaker = Absent
         \/ requests'[i].speaker # Absent /\ requests'[i].speaker[1] \notin Numerals) =>
           /\ onError(requests'[i].error).status = 422
           /\ requests'[i].call = 0
           /\ toH' = toH
           /\ pendingRequests' = pendingRequests
           /\ timers' = timers
           /\ wCall' = wCall]_vars

\* a message of the worker is dispatched in this step
Dispatched == fromWorker # <<>> /\ fromWorker' = Tail(fromWorker)

\* C35: a call of the invoker resolves at most once, and only in the step
\* that dispatches a message whose type and eventId both equal the call's,
\* with that message's return value; a message that differs in type or in
\* eventId leaves the call as pending as it was, with its listener
\* registered; the listener is registered exactly as long as the call has
\* not resolved, and a resolved call never changes again.
C35_InvokerResolvesOnMatch ==
  /\ [](\A i \in DOMAIN invocations :
          /\ invocations[i].resolves <= 1
          /\ invocations[i].listening <=> invocations[i].resolves = 0)
  /\ [][\A i \in DOMAIN invocations :
          IF /\ Dispatched
             /\ invocations[i].listening
             /\ Head(fromWorker).type = invocations[i].type
             /\ Head(fromWorker).eventId = invocations[i].eventId
          THEN /\ invocations'[i].resolves = 1
               /\ invocations'[i].value = Head(fromWorker).return
               /\ ~invocations'[i].listening
          ELSE /\ invocations'[i].resolves = invocations[i].resolves
               /\ invocations'[i].value = invocations[i].value
               /\ invocations'[i].listening = invocations[i].listening]_vars

\* one call has resolved with the value of its reply and its listener is
\* gone, while another call is still pending, with its listener registered,
\* after it heard a message that was not its reply
C35_Witness ==
  /\ \E i \in DOMAIN invocations :
        /\ invocations[i].resolves = 1
        /\ ~invocations[i].listening
        /\ invocations[i].value = "r2"
        /\ invocations[i].heardOther
  /\ \E i \in DOMAIN invocations :
        /\ invocations[i].resolves = 0
        /\ invocations[i].listening
        /\ invocations[i].heardOther

\* the operations whose permission request is answered in this step
PermissionAnswered ==
  {i \in DOMAIN fileOps : fileOps[i].pc = "permission" /\ fileOps'[i].pc # "permission"}

\* C36: when writeFile, readFile or checkFileExists takes the directory handle
\* from the persistent store and the permission request is not granted, the
\* operation ends there: it touches no file, leaves directoryHandleMap as it
\* was, and returns its failure: an error result, a rejection, false.
C36_PermissionDeniedNoAccess ==
  [][\A i \in PermissionAnswered :
        (fileOps'[i].fromStore /\ fileOps'[i].permission # "granted") =>
           /\ fileOps'[i].pc = "done"
           /\ ~fileOps'[i].accessed
           /\ directoryHandleMap' = directoryHandleMap
           /\ fileOps'[i].result = NoAccessResult(fileOps'[i].op)]_vars

\* C37: after any sequence of instance() calls, two calls were given the
\* same object exactly when they named the same host, and an entry of
\* instanceMapper, once made, is never replaced or removed.
C37_OneInstancePerHost ==
  /\ [](\A i, j \in DOMAIN instanceCalls :
          (instanceCalls[i].host = instanceCalls[j].host)
            <=> (instanceCalls[i].value = instanceCalls[j].value))
  /\ [][\A h \in DOMAIN instanceMapper :
          h \in DOMAIN instanceMapper' /\ instanceMapper'[h] = instanceMapper[h]]_vars

\* a host is asked for, then another host, then the first host again, which
\* is given the connector made for it by the first call
C37_Witness ==
  /\ Len(instanceCalls) = 3
  /\ instanceCalls[1].host = instanceCalls[3].host
  /\ instanceCalls[2].host # instanceCalls[1].host
  /\ instanceCalls[1].value = DefaultApi(1)
  /\ instanceCalls[2].value = DefaultApi(2)
  /\ instanceCalls[3].value = DefaultApi(1)
  /\ DOMAIN instanceMapper = {instanceCalls[1].host, instanceCalls[2].host}

\* C38: a getSession that awaited a warm-up load which succeeded finds the
\* session in the session map when it resumes: the session it returns is the
\* one the map holds, and no getSession returns an absent session.
C38_JoinedSessionPresent ==
  /\ [](\A o \in obtained : o[4] # NoId)
  /\ [][\A o \in obtained' \ obtained :
          o[5] = "join" =>
             /\ o[3] \in DOMAIN sessions'[o[2]]
             /\ o[4] = sessions'[o[2]][o[3]]]_vars

\* an inference call has resumed from a warm-up load it awaited, holding the
\* session the session map has for that model
C38_Witness ==
  \E o \in obtained :
     /\ o[5] = "join"
     /\ o[4] # NoId
     /\ o[3] \in DOMAIN sessions[o[2]]
     /\ sessions[o[2]][o[3]] = o[4]
     /\ o[1] \in DOMAIN tasks
     /\ tasks[o[1]].kind # "initializeSession"

====
